---- MODULE Spec2Model ----
(***************************************************************************)
(* Model of optitrader's optimisation core: Solver (solve-and-validate),   *)
(* Portfolio construction, and the Backtester rebalancing loop.            *)
(*                                                                         *)
(* Weights are fixed-point integers: WeightScale units stand for 1.0.      *)
(* Timestamps are integers counted in half-days from 2023-01-01 00:00, so  *)
(* an even timestamp is a midnight and ts \div 2 is the calendar day.      *)
(***************************************************************************)
EXTENDS Integers, Sequences, FiniteSets, TLC

VARIABLES
    \* ---- Solver object and one solve() call -------------------------
    s_arg_returns,  \* returns argument of the Solver(...) call
    s_arg_objectives,    \* objectives argument of the Solver(...) call
    s_arg_financials_df, \* financials_df argument of the Solver(...) call
    s_pc,           \* position: "none", "ctor_failed", "ready", "retry",
                    \*           "backend_done", "done", "solve_failed"
    s_returns,      \* Solver.returns: rows of cells, TRUE = NaN cell
    s_objectives,   \* Solver.objectives: sequence of objective objects
    s_constraints,  \* Solver.constraints: sequence of constraint objects
    s_financials_df, \* Solver.financials_df
    s_tol,          \* weights_tolerance argument of the running solve()
    s_calls,        \* backend invocations of the running solve(), in order
    s_status,       \* problem.status after the last backend invocation
    s_value,        \* weights_var.value after the last backend invocation
    s_portfolios,   \* Portfolios returned by the last solve() (0 or 1)
    s_error,        \* error raised by the constructor / the last solve()
    \* ---- Backtester object ------------------------------------------
    bt_start,       \* Backtester.start (timestamp)
    bt_end,         \* Backtester.end (timestamp)
    bt_freq,        \* Backtester.rebal_freq
    bt_rebalance_dates, \* value returned by the last get_rebalance_dates()
    ptfs,           \* Backtester.ptfs
    bt_pc,          \* position: "idle", "loop" (top of the for loop),
                    \*           "solved" (opt.solve returned, append pending)
    bt_caller,      \* the method the caller invoked, "" before any call
    bt_bar,         \* progress_bar argument of the running compute_portfolios
    bt_dates,       \* local dates of the running compute_portfolios
    bt_idx,         \* iterations of the for loop completed
    bt_pending,     \* Portfolio returned by opt.solve and not yet appended
    bt_solve_log,   \* opt.solve invocations of the running call, in order
    bt_base,        \* len(self.ptfs) when the running call began
    bt_rets,        \* local rets of the running compute_history_values
    bt_result,      \* what the last call returned or raised
    bt_ncalls,      \* calls made on this Backtester
    \* ---- Optitrader object -------------------------------------------
    e_objectives,   \* Optitrader.objectives
    e_constraints,  \* Optitrader.constraints
    e_args,         \* arguments of the last solve() call
    e_before,       \* Optitrader.constraints when the last solve() call began
    e_fetches,      \* market-data requests of the last solve() call, in order
    e_built,        \* Solver(...).solve(...) invocations of the last solve() call
    e_result,       \* what the last solve() call returned or raised
    e_ncalls,       \* solve() calls made on this Optitrader
    \* ---- Portfolio object --------------------------------------------
    p_pc,           \* "none", "ctor_failed" or "live"
    p_arg_weights,  \* weights argument of the Portfolio(...) call
    p_heap,         \* the pandas Series objects alive, by object id
    p_weights,      \* Portfolio.weights: the id of a Series object
    p_objective_values, \* Portfolio.objective_values
    p_created_at,   \* Portfolio.created_at
    p_market_data,  \* Portfolio.market_data
    p_result,       \* what the last operation returned or raised
    p_nops,         \* operations performed on this Portfolio
    \* ---- ConstraintsMap object ---------------------------------------
    cm_pc,          \* "none" or "live"
    cm_constraints, \* ConstraintsMap.constraints: references to constraint objects
    cm_bounds,      \* lower_bound and upper_bound of every bounded constraint object
    cm_result,      \* the last call on the map and the exception it raised
    cm_ncalls,      \* calls made on this map
    \* ---- ObjectivesMap object ----------------------------------------
    om_pc,          \* "none" or "live"
    om_arg,         \* objectives argument of the ObjectivesMap(...) call
    om_objectives,  \* ObjectivesMap.objectives
    om_calls,       \* the add_objective calls made on this map, in order
    \* ---- SessionManager object (the dashboard's home page) -----------
    sm_params,      \* the optimization parameters the widgets of the page show
    sm_opt_ptf,     \* SessionManager._opt_ptf: <<>> or the cached Portfolio
    sm_last         \* the last event on the page and whether it ran the solver

\* the fields of the Solver object and the argument it was built from
solverFields == <<s_arg_returns, s_arg_objectives, s_arg_financials_df,
                  s_returns, s_objectives, s_constraints, s_financials_df>>

solverVars == <<solverFields, s_pc, s_tol, s_calls, s_status, s_value,
                s_portfolios, s_error>>

calendarVars == <<bt_start, bt_end, bt_freq, bt_rebalance_dates>>

loopVars == <<ptfs, bt_pc, bt_caller, bt_bar, bt_dates, bt_idx, bt_pending,
              bt_solve_log, bt_base, bt_rets, bt_result, bt_ncalls>>

engineVars == <<e_objectives, e_constraints, e_args, e_before, e_fetches,
                e_built, e_result, e_ncalls>>

\* the objects that the specifications of the Solver and of the Backtester
\* leave alone
portfolioVars == <<p_pc, p_arg_weights, p_heap, p_weights, p_objective_values,
                   p_created_at, p_market_data, p_result, p_nops>>

mapVars == <<cm_pc, cm_constraints, cm_bounds, cm_result, cm_ncalls>>

objectivesMapVars == <<om_pc, om_arg, om_objectives, om_calls>>

sessionVars == <<sm_params, sm_opt_ptf, sm_last>>

otherVars == <<engineVars, portfolioVars, mapVars, objectivesMapVars, sessionVars>>

vars == <<solverVars, calendarVars, loopVars, otherVars>>

(***************************************************************************)
(* Bounds of the model.                                                    *)
(***************************************************************************)
WeightScale == 6        \* fixed-point units that stand for a weight of 1.0
NumAssets == 3          \* columns of the returns matrix
ReturnsRows == 2        \* rows of the returns matrix
BackendSlack == 1       \* units by which the backend may miss a constraint
HorizonMonths == 14     \* calendar months, from January 2023, that inputs span
MaxCalls == 2           \* calls made on one Backtester
MaxTradingDays == 2     \* rows of the realized-returns matrix of a backtest
ReturnScale == 100      \* fixed-point units that stand for a return of 1.0
MaxEngineCalls == 2     \* solve() calls made on one Optitrader
MaxOps == 2             \* operations performed on one Portfolio
MaxMapCalls == 3        \* calls made on one ConstraintsMap

(***************************************************************************)
(* Program constants.                                                      *)
(***************************************************************************)
SUM_WEIGHTS_TOLERANCE_PCT == 2   \* SETTINGS.SUM_WEIGHTS_TOLERANCE = 0.02

TolNone == -1           \* weights_tolerance = None
NoTimestamp == -1       \* created_at = None

NoBound == -1000        \* lower_bound / upper_bound = None
NoFrame == -1           \* financials_df = None

SUM_TO_ONE == "SUM_TO_ONE"
LONG_ONLY == "LONG_ONLY"
NUMER_OF_ASSETS == "NUMER_OF_ASSETS"
WEIGHTS_PCT == "WEIGHTS_PCT"
CVAR == "CVAR"
COVARIANCE == "COVARIANCE"
FINANCIALS == "FINANCIALS"
EXPECTED_RETURNS == "EXPECTED_RETURNS"
MEAN_ABSOLUTE_DEVIATION == "MEAN_ABSOLUTE_DEVIATION"
MOST_DIVERSIFIED == "MOST_DIVERSIFIED"

NoError == [type |-> "", detail |-> ""]

Assets == 1..NumAssets

RECURSIVE SumSeq(_)
SumSeq(s) == IF s = <<>> THEN 0 ELSE Head(s) + SumSeq(Tail(s))

Abs(x) == IF x < 0 THEN -x ELSE x

SeqToSet(s) == {s[i] : i \in 1..Len(s)}

\* [o.name for o in objects]
Names(objects) == [k \in 1..Len(objects) |-> objects[k].name]

(***************************************************************************)
(* Inputs of the Solver.                                                   *)
(***************************************************************************)
ReturnsMatrices == [1..ReturnsRows -> [Assets -> BOOLEAN]]

\* objective objects: the class, and the name and weight attributes
CVaRObjectiveFunction(weight) ==
    [cls |-> "CVaRObjectiveFunction", name |-> CVAR, weight |-> weight]

CovarianceObjectiveFunction(weight) ==
    [cls |-> "CovarianceObjectiveFunction", name |-> COVARIANCE, weight |-> weight]

FinancialsObjectiveFunction(weight) ==
    [cls |-> "FinancialsObjectiveFunction", name |-> FINANCIALS, weight |-> weight]

\* a PortfolioObjective subclass of the caller, constructed with this name
CallerObjective(name, weight) ==
    [cls |-> "PortfolioObjective", name |-> name, weight |-> weight]

ObjectiveLists == {<<>>, <<CVaRObjectiveFunction(1)>>,
                   <<CovarianceObjectiveFunction(1), CVaRObjectiveFunction(1)>>}

\* constraint objects: the name and the bounds
SumToOneConstraint ==
    [name |-> SUM_TO_ONE, lower_bound |-> NoBound, upper_bound |-> NoBound]

NoShortSellConstraint ==
    [name |-> LONG_ONLY, lower_bound |-> NoBound, upper_bound |-> NoBound]

NumberOfAssetsConstraint(lower_bound, upper_bound) ==
    [name |-> NUMER_OF_ASSETS, lower_bound |-> lower_bound, upper_bound |-> upper_bound]

WeightsConstraint(lower_bound, upper_bound) ==
    [name |-> WEIGHTS_PCT, lower_bound |-> lower_bound, upper_bound |-> upper_bound]

NumberBounds == {NoBound, NumAssets - 1, NumAssets}

PercentBounds == {NoBound, -50, 50, 101}

ConstraintLists ==
    {<<>>, <<SumToOneConstraint>>, <<NoShortSellConstraint>>,
     <<SumToOneConstraint, NoShortSellConstraint>>}
    \cup {<<SumToOneConstraint, NoShortSellConstraint,
            NumberOfAssetsConstraint(l, u)>> : l, u \in NumberBounds}
    \cup {<<SumToOneConstraint, NoShortSellConstraint,
            WeightsConstraint(l, u)>> : l, u \in PercentBounds}

\* financials_df: None, or a frame without NaN of this many statement dates
FinancialsFrames == {NoFrame, 1, 2}

ToleranceArgs == {TolNone, 0, 2, WeightScale \div 2}

NaNCount_FirstRowOnly(returns) ==
    Cardinality({a \in Assets : returns[1][a]})

\* returns.isna().sum().sum()
NaNCount(returns) ==
    Cardinality({<<r, a>> \in (1..ReturnsRows) \X Assets : returns[r][a]})

(***************************************************************************)
(* The convex backend.  A run either raises or sets problem.status; with a *)
(* status of "optimal" the value of the weights variable satisfies every   *)
(* constraint of the problem up to BackendSlack.                           *)
(***************************************************************************)
Statuses == {"optimal", "optimal_inaccurate", "infeasible", "unbounded"}

WeightDomain == (0 - BackendSlack)..(WeightScale + BackendSlack)

\* the cvxpy constraints that one constraint object contributes, as a
\* predicate on the value w of the weights variable
ConstraintHolds(c, w) ==
    CASE c.name = SUM_TO_ONE ->
            Abs(SumSeq(w) - WeightScale) <= BackendSlack
      [] c.name = LONG_ONLY ->
            \A a \in Assets : w[a] >= 0 - BackendSlack
      [] c.name = NUMER_OF_ASSETS ->
            \E w_bool \in [Assets -> {0, 1}] :
               /\ \A a \in Assets : w[a] - (w_bool[a] * WeightScale) <= BackendSlack
               /\ c.lower_bound # NoBound => SumSeq(w_bool) >= c.lower_bound
               /\ c.upper_bound # NoBound => SumSeq(w_bool) <= c.upper_bound
      [] c.name = WEIGHTS_PCT ->
            /\ c.lower_bound # NoBound =>
                  \A a \in Assets :
                     100 * (w[a] + BackendSlack) >= c.lower_bound * WeightScale
            /\ c.upper_bound # NoBound =>
                  \A a \in Assets :
                     100 * (w[a] - BackendSlack) <= c.upper_bound * WeightScale

BackendFeasible(w, constraints) ==
    \A k \in 1..Len(constraints) : ConstraintHolds(constraints[k], w)

\* the asserts of WeightsConstraint.get_constraints_list
BoundsAccepted(c) ==
    c.name = WEIGHTS_PCT =>
        /\ c.lower_bound # NoBound => (c.lower_bound >= 0 /\ c.lower_bound <= 100)
        /\ c.upper_bound # NoBound => c.upper_bound <= 100

BackendValues(constraints) ==
    {w \in [Assets -> WeightDomain] : BackendFeasible(w, constraints)}

\* what one problem.solve(...) invocation can do
BackendOutcomes(constraints) ==
    {[kind |-> "SolverError", status |-> "", value |-> <<>>],
     [kind |-> "OtherError", status |-> "", value |-> <<>>]}
    \cup {[kind |-> "returned", status |-> st, value |-> <<>>] :
             st \in Statuses \ {"optimal"}}
    \cup {[kind |-> "returned", status |-> "optimal", value |-> w] :
             w \in BackendValues(constraints)}

(***************************************************************************)
(* Portfolio.__init__: the sum check is skipped for an empty weight vector *)
(* and for a vector whose sum is zero.                                     *)
(***************************************************************************)
WithinSumTolerance(wsum) ==
    100 * (WeightScale - wsum) <= SUM_WEIGHTS_TOLERANCE_PCT * WeightScale

PortfolioAccepts(weights) ==
    \/ weights = <<>>
    \/ SumSeq(weights) = 0
    \/ WithinSumTolerance(SumSeq(weights))

UtcNow == 0             \* the wall clock read by Portfolio.__init__

NewPortfolio(weights, objective_values, created_at) ==
    [weights |-> weights,
     objective_values |-> objective_values,
     created_at |-> IF created_at = NoTimestamp THEN UtcNow ELSE created_at]

(***************************************************************************)
(* Solver.__init__                                                         *)
(***************************************************************************)
\* any(isinstance(o, FinancialsObjectiveFunction) for o in objectives)
HasFinancialsObjective(objectives) ==
    \E k \in 1..Len(objectives) : objectives[k].cls = "FinancialsObjectiveFunction"

\* financials_df.pct_change().iloc[1:].fillna(0).T: one row fewer
GrowthFrame(financials_df) == financials_df - 1

SolverInit(returns, objectives, constraints, financials_df) ==
    /\ s_pc = "none"
    /\ s_arg_returns' = returns
    /\ s_arg_objectives' = objectives
    /\ s_arg_financials_df' = financials_df
    /\ IF NaNCount(returns) # 0
       THEN /\ s_pc' = "ctor_failed"
            /\ s_error' = [type |-> "AssertionError", detail |-> "returns contains NaN"]
            /\ UNCHANGED <<s_returns, s_objectives, s_constraints, s_financials_df>>
       ELSE IF HasFinancialsObjective(objectives) /\ financials_df = NoFrame
       THEN /\ s_pc' = "ctor_failed"
            /\ s_error' = [type |-> "AssertionError", detail |-> "financials_df"]
            /\ s_returns' = returns
            /\ UNCHANGED <<s_objectives, s_constraints, s_financials_df>>
       ELSE IF HasFinancialsObjective(objectives) /\ GrowthFrame(financials_df) = 0
       THEN /\ s_pc' = "ctor_failed"
            /\ s_error' = [type |-> "AssertionError", detail |-> "financials_df empty"]
            /\ s_returns' = returns
            /\ UNCHANGED <<s_objectives, s_constraints, s_financials_df>>
       ELSE /\ s_pc' = "ready"
            /\ s_returns' = returns
            /\ s_financials_df' = IF HasFinancialsObjective(objectives)
                                  THEN GrowthFrame(financials_df)
                                  ELSE financials_df
            /\ s_objectives' = objectives
            /\ s_constraints' = constraints
            /\ UNCHANGED s_error
    /\ UNCHANGED <<s_tol, s_calls, s_status, s_value, s_portfolios>>

(***************************************************************************)
(* The objective of the cvxpy problem: one minimize term per objective, in *)
(* the order of Solver.objectives, summed by cp.sum.  A term is recorded   *)
(* as the expression its class builds and the factor in front of it.       *)
(***************************************************************************)
\* objective_function of get_objective_and_auxiliary_constraints
BaseExpression(cls) ==
    CASE cls = "CVaRObjectiveFunction" ->
            "value_at_risk + 1 / ((1 - confidence_level) * n_obs) * sum(losses_minus_var)"
      [] cls = "CovarianceObjectiveFunction" -> "w @ (252 * cov) @ w"
      [] cls = "ExpectedReturnsObjectiveFunction" -> "w @ (-252 * mean)"
      [] cls = "MADObjectiveFunction" -> "sum(abs_devs) / n_obs"
      [] cls = "FinancialsObjectiveFunction" -> "sum(w @ -financials * 1e-4)"
      [] cls = "MostDiversifiedObjectiveFunction" -> "_weights @ cov @ _weights"
      [] OTHER -> "objective_function"

\* the cp.Minimize(...) that an objective returns; a class of the caller is
\* taken to follow `self.weight * objective_function`
MinimizeTerm(obj) ==
    [name |-> obj.name,
     base |-> BaseExpression(obj.cls),
     coefficient |-> IF obj.cls = "MostDiversifiedObjectiveFunction"
                     THEN 1
                     ELSE obj.weight]

\* cp.sum([obj.minimize for obj in cvxpy_objectives])
ProblemObjective(objectives) ==
    [k \in 1..Len(objectives) |-> MinimizeTerm(objectives[k])]

(***************************************************************************)
(* Solver.solve, up to and including the first backend invocation.         *)
(***************************************************************************)
RequestedSolver == "ECOS"
DefaultSolver == "default"

RetriesOn_AnyError(kind) == kind \in {"SolverError", "OtherError"}

\* except cp.SolverError
RetriesOn(kind) == kind = "SolverError"

SolveBegin(weights_tolerance, outcome) ==
    /\ s_pc = "ready"
    /\ s_tol' = weights_tolerance
    /\ s_portfolios' = <<>>
    /\ IF s_objectives = <<>>
       THEN \* _get_cvxpy_objectives_and_constraints asserts on the objectives
            /\ s_pc' = "solve_failed"
            /\ s_error' = [type |-> "AssertionError", detail |-> "no objective"]
            /\ s_calls' = <<>>
            /\ s_status' = ""
            /\ s_value' = <<>>
       ELSE IF \E k \in 1..Len(s_constraints) : ~BoundsAccepted(s_constraints[k])
       THEN \* get_constraints_list asserts on the bounds
            /\ s_pc' = "solve_failed"
            /\ s_error' = [type |-> "AssertionError", detail |-> "bound percentage"]
            /\ s_calls' = <<>>
            /\ s_status' = ""
            /\ s_value' = <<>>
       ELSE /\ s_calls' = <<[solver |-> RequestedSolver, kind |-> outcome.kind,
                            objective |-> ProblemObjective(s_objectives)]>>
            /\ s_status' = outcome.status
            /\ s_value' = outcome.value
            /\ IF RetriesOn(outcome.kind)
               THEN /\ s_pc' = "retry"
                    /\ s_error' = NoError
               ELSE IF outcome.kind # "returned"
               THEN /\ s_pc' = "solve_failed"
                    /\ s_error' = [type |-> outcome.kind, detail |-> "backend"]
               ELSE /\ s_pc' = "backend_done"
                    /\ s_error' = NoError
    /\ UNCHANGED solverFields

(***************************************************************************)
(* The except branch: one more invocation with the default configuration.  *)
(***************************************************************************)
SolveRetry(outcome) ==
    /\ s_pc = "retry"
    /\ s_calls' = Append(s_calls, [solver |-> DefaultSolver, kind |-> outcome.kind,
                                 objective |-> ProblemObjective(s_objectives)])
    /\ s_status' = outcome.status
    /\ s_value' = outcome.value
    /\ IF outcome.kind # "returned"
       THEN \* nothing catches an error of the second invocation
            /\ s_pc' = "solve_failed"
            /\ s_error' = [type |-> outcome.kind, detail |-> "backend"]
       ELSE /\ s_pc' = "backend_done"
            /\ s_error' = NoError
    /\ UNCHANGED <<solverFields, s_tol, s_portfolios>>

(***************************************************************************)
(* Solver.solve after the backend returned: status check, validation,      *)
(* tolerance zeroing and Portfolio construction.                           *)
(***************************************************************************)
StatusIsOptimal_Lenient(status) == status \in {"optimal", "optimal_inaccurate"}

\* problem.status != "optimal"
StatusIsOptimal(status) == status = "optimal"

ZeroSmallWeights_PositiveOnly(w, weights_tolerance) ==
    IF weights_tolerance = TolNone
    THEN w
    ELSE [a \in DOMAIN w |-> IF w[a] >= 0 /\ w[a] < weights_tolerance THEN 0 ELSE w[a]]

\* weights_series[abs(weights_series) < weights_tolerance] = 0.0
ZeroSmallWeights(w, weights_tolerance) ==
    IF weights_tolerance = TolNone
    THEN w
    ELSE [a \in DOMAIN w |-> IF Abs(w[a]) < weights_tolerance THEN 0 ELSE w[a]]

RecoveredWeightsValid_SumOnly(w, constraints) ==
    SUM_TO_ONE \in SeqToSet(Names(constraints)) => WithinSumTolerance(SumSeq(w))

\* the assert of solver.py lines 141-144 on the recovered weights
RecoveredWeightsValid(w, constraints) ==
    IF SUM_TO_ONE \in SeqToSet(Names(constraints))
    THEN WithinSumTolerance(SumSeq(w))
    ELSE IF LONG_ONLY \in SeqToSet(Names(constraints))
         THEN \A a \in DOMAIN w : w[a] >= 0
         ELSE TRUE

\* self._objectives_map.get_objective_by_name(name).weight: _objs[0]
ObjectiveWeight(objectives, k) ==
    LET name == objectives[k].name
        first == CHOOSE i \in 1..Len(objectives) :
                    /\ objectives[i].name = name
                    /\ \A j \in 1..(i - 1) : objectives[j].name # name
    IN objectives[first].weight

\* one ObjectiveValue per cvxpy objective: its name, the value of its own
\* minimize term (the term is identified by its position) and a weight
ObjectiveValues(objectives) ==
    [k \in 1..Len(objectives) |->
        [name |-> objectives[k].name,
         value |-> [term |-> k],
         weight |-> ObjectiveWeight(objectives, k)]]

SolveFinish ==
    /\ s_pc = "backend_done"
    /\ LET emitted == ZeroSmallWeights(s_value, s_tol) IN
       IF ~StatusIsOptimal(s_status)
       THEN /\ s_pc' = "solve_failed"
            /\ s_error' = [type |-> "AssertionError", detail |-> s_status]
            /\ UNCHANGED s_portfolios
       ELSE IF ~RecoveredWeightsValid(s_value, s_constraints)
       THEN /\ s_pc' = "solve_failed"
            /\ s_error' = [type |-> "AssertionError", detail |-> "weights"]
            /\ UNCHANGED s_portfolios
       ELSE IF ~PortfolioAccepts(emitted)
       THEN /\ s_pc' = "solve_failed"
            /\ s_error' = [type |-> "AssertionError", detail |-> "sum of weights"]
            /\ UNCHANGED s_portfolios
       ELSE /\ s_pc' = "done"
            /\ s_error' = NoError
            /\ s_portfolios' = <<NewPortfolio(emitted, ObjectiveValues(s_objectives),
                                              NoTimestamp)>>
    /\ UNCHANGED <<solverFields, s_tol, s_calls, s_status, s_value>>

(***************************************************************************)
(* solve() hands its Portfolio or its error to the caller; the Solver      *)
(* object keeps its fields and can be solved again.                        *)
(***************************************************************************)
SolveReturn ==
    /\ s_pc \in {"done", "solve_failed"}
    /\ s_pc' = "ready"
    /\ s_tol' = TolNone
    /\ s_calls' = <<>>
    /\ s_status' = ""
    /\ s_value' = <<>>
    /\ s_portfolios' = <<>>
    /\ s_error' = NoError
    /\ UNCHANGED solverFields

(***************************************************************************)
(* Specification of the Solver.                                            *)
(***************************************************************************)
SolverStart ==
    /\ s_arg_returns = <<>>
    /\ s_arg_objectives = <<>>
    /\ s_arg_financials_df = NoFrame
    /\ s_pc = "none"
    /\ s_returns = <<>>
    /\ s_objectives = <<>>
    /\ s_constraints = <<>>
    /\ s_financials_df = NoFrame
    /\ s_tol = TolNone
    /\ s_calls = <<>>
    /\ s_status = ""
    /\ s_value = <<>>
    /\ s_portfolios = <<>>
    /\ s_error = NoError

\* the steps of a Solver built from these objective lists, constraint lists
\* and financials frames
SolverStepOver(objective_lists, constraint_lists, frames) ==
    \/ /\ s_pc = "none"
       /\ \E returns \in ReturnsMatrices, objectives \in objective_lists,
             constraints \in constraint_lists, financials_df \in frames :
             SolverInit(returns, objectives, constraints, financials_df)
    \/ /\ s_pc = "ready"
       /\ \E weights_tolerance \in ToleranceArgs,
             outcome \in BackendOutcomes(s_constraints) :
             SolveBegin(weights_tolerance, outcome)
    \/ /\ s_pc = "retry"
       /\ \E outcome \in BackendOutcomes(s_constraints) : SolveRetry(outcome)
    \/ SolveFinish
    \/ SolveReturn

SolverStep == SolverStepOver(ObjectiveLists, ConstraintLists, {NoFrame})

(***************************************************************************)
(* Calendar.  Day 0 is 2023-01-01, a Sunday; month 0 is January 2023.      *)
(***************************************************************************)
WEEKLY == "W"
MONTHLY == "ME"
QUARTERLY == "3M"
YEARLY == "12M"

RebalanceFrequencies == {WEEKLY, MONTHLY, QUARTERLY, YEARLY}

IsLeapYear(y) == y % 4 = 0 /\ (y % 100 # 0 \/ y % 400 = 0)

DaysInMonth(m) ==
    LET y == 2023 + (m \div 12)
        k == (m % 12) + 1
    IN  IF k = 2 THEN (IF IsLeapYear(y) THEN 29 ELSE 28)
        ELSE IF k \in {4, 6, 9, 11} THEN 30 ELSE 31

RECURSIVE MonthStartDay(_)
MonthStartDay(m) == IF m = 0 THEN 0 ELSE MonthStartDay(m - 1) + DaysInMonth(m - 1)

MonthEndDay(m) == MonthStartDay(m + 1) - 1

MonthOfDay(d) ==
    CHOOSE m \in 0..(HorizonMonths + 1) : MonthStartDay(m) <= d /\ d <= MonthEndDay(m)

IsSunday(d) == d % 7 = 0

DayOf(ts) == ts \div 2

Midnight(d) == 2 * d

\* Timestamp.normalize(): the midnight of the timestamp's day
Normalize(ts) == Midnight(DayOf(ts))

\* how many month ends one step of the frequency's offset advances
MonthsPerStep(freq) ==
    IF freq = MONTHLY THEN 1 ELSE IF freq = QUARTERLY THEN 3 ELSE 12

\* offset.is_on_offset(day)
IsOnOffset(d, freq) ==
    IF freq = WEEKLY THEN IsSunday(d) ELSE d = MonthEndDay(MonthOfDay(d))

RollForward_Strict(d, freq) ==
    IF freq = WEEKLY THEN d + (7 - (d % 7)) ELSE
    IF d = MonthEndDay(MonthOfDay(d)) THEN MonthEndDay(MonthOfDay(d) + 1)
    ELSE MonthEndDay(MonthOfDay(d))

\* offset.rollforward(day): the day itself when on the offset, else the
\* next Sunday (W) or the end of the day's month (ME, 3M, 12M)
RollForward(d, freq) ==
    IF IsOnOffset(d, freq) THEN d
    ELSE IF freq = WEEKLY THEN d + (7 - (d % 7))
    ELSE MonthEndDay(MonthOfDay(d))

\* day + offset, for a day that is on the offset
NextOnOffset(d, freq) ==
    IF freq = WEEKLY THEN d + 7
    ELSE MonthEndDay(MonthOfDay(d) + MonthsPerStep(freq))

RECURSIVE GenerateRange(_, _, _)
GenerateRange(cur, lastDay, freq) ==
    IF cur > lastDay THEN <<>>
    ELSE <<Midnight(cur)>> \o GenerateRange(NextOnOffset(cur, freq), lastDay, freq)

\* pd.date_range(start, end, freq, normalize=True)
DateRange(start, end, freq) ==
    GenerateRange(RollForward(DayOf(Normalize(start)), freq),
                  DayOf(Normalize(end)), freq)

(***************************************************************************)
(* Backtester.get_rebalance_dates                                          *)
(***************************************************************************)
NotCalled == <<NoTimestamp>>    \* no value returned yet

GetRebalanceDates ==
    /\ bt_pc = "idle"
    /\ bt_rebalance_dates' = DateRange(bt_start, bt_end, bt_freq)
    /\ UNCHANGED <<bt_start, bt_end, bt_freq>>
    /\ UNCHANGED loopVars

(***************************************************************************)
(* Optitrader.solve(end_date = date), as the Backtester sees it: it raises *)
(* or returns the Portfolio of Solver.solve(created_at = end_date).        *)
(***************************************************************************)
EngineWeights ==
    {w \in [Assets -> {0, WeightScale}] : SumSeq(w) = WeightScale}

EngineOutcomes ==
    {[raised |-> TRUE, weights |-> <<>>]}
    \cup {[raised |-> FALSE, weights |-> w] : w \in EngineWeights}

EnginePortfolio(weights, end_date) ==
    NewPortfolio(weights, ObjectiveValues(<<CVaRObjectiveFunction(1)>>), end_date)

(***************************************************************************)
(* market_data.get_total_returns(tickers, start_date, end_date): one row   *)
(* per trading day of the window, indexed by the day's "%Y-%m-%d" string   *)
(* in increasing order, one NaN-free return per asset.                     *)
(***************************************************************************)
RECURSIVE SortedDays(_)
SortedDays(days) ==
    IF days = {} THEN <<>>
    ELSE LET first == CHOOSE d \in days : \A e \in days : d <= e
         IN  <<first>> \o SortedDays(days \ {first})

ReturnRows ==
    {[a \in Assets |-> a], [a \in Assets |-> 0 - (2 * a)]}

\* the days of the window on which the model lets the market trade
TradingDayCandidates(start, end, freq) ==
    LET dates == DateRange(start, end, freq)
        near == UNION {{DayOf(dates[i]) - 1, DayOf(dates[i]), DayOf(dates[i]) + 1} :
                          i \in 1..Len(dates)}
    IN  (near \cup {DayOf(start), DayOf(end)}) \cap (DayOf(start)..DayOf(end))

TotalReturns(start, end, freq) ==
    {[k \in 1..Cardinality(days) |-> [day |-> SortedDays(days)[k], ret |-> rows[k]]] :
        <<days, rows>> \in
            {<<ds, rs>> \in (SUBSET TradingDayCandidates(start, end, freq))
                              \X [1..MaxTradingDays -> ReturnRows] :
                /\ Cardinality(ds) <= MaxTradingDays
                /\ \A k \in (Cardinality(ds) + 1)..MaxTradingDays :
                      rs[k] = [a \in Assets |-> a]}}

(***************************************************************************)
(* Portfolios.to_df: a dict keyed by created_at (a repeated key keeps its  *)
(* first position and takes the last value), transposed, with the index    *)
(* formatted as "%Y-%m-%d".  rearrange_columns_by_zeros only permutes the  *)
(* columns, which arithmetic aligns again by ticker.                       *)
(***************************************************************************)
RECURSIVE DictOfPortfolios(_, _)
DictOfPortfolios(list, acc) ==
    IF list = <<>> THEN acc
    ELSE LET p == Head(list)
             hit == {i \in 1..Len(acc) : acc[i].key = p.created_at}
         IN  IF hit = {}
             THEN DictOfPortfolios(Tail(list),
                      Append(acc, [key |-> p.created_at, weights |-> p.weights]))
             ELSE DictOfPortfolios(Tail(list),
                      [i \in 1..Len(acc) |->
                          IF i \in hit THEN [key |-> acc[i].key, weights |-> p.weights]
                          ELSE acc[i]])

ToDf(list) ==
    LET dict == DictOfPortfolios(list, <<>>)
    IN  [i \in 1..Len(dict) |-> [date |-> DayOf(dict[i].key), weights |-> dict[i].weights]]

PadIndex_Backfill(df, day) ==
    LET later == {i \in 1..Len(df) : df[i].date >= day}
    IN  IF later = {} THEN 0 ELSE CHOOSE i \in later : \A j \in later : i <= j

\* reindex(..., method="ffill"): the position of the last row of df whose
\* date is not after day; 0 when there is none (a row of NaN)
PadIndex(df, day) ==
    LET earlier == {i \in 1..Len(df) : df[i].date <= day}
    IN  IF earlier = {} THEN 0 ELSE CHOOSE i \in earlier : \A j \in earlier : i >= j

\* one row of ptfs.reindex(rets.index, method="ffill").fillna(0)
ReindexedWeights(df, day) ==
    IF PadIndex(df, day) = 0 THEN [a \in Assets |-> 0]
    ELSE df[PadIndex(df, day)].weights

RECURSIVE SumOver(_, _)
SumOver(f, set) ==
    IF set = {} THEN 0
    ELSE LET x == CHOOSE y \in set : TRUE IN f[x] + SumOver(f, set \ {x})

\* (rets * weights).sum(axis=1) for one row
RowReturn(row, weights) ==
    SumOver([a \in Assets |-> row.ret[a] * weights[a]], Assets)

One == WeightScale * ReturnScale    \* the wealth 1.0

RECURSIVE CumSum(_, _, _)
CumSum(rets, df, k) ==
    IF k = 0 THEN 0
    ELSE CumSum(rets, df, k - 1) + RowReturn(rets[k], ReindexedWeights(df, rets[k].day))

NoResult == [kind |-> "none", ptfs |-> <<>>, wealth |-> <<>>, error |-> ""]

ErrorResult(error) == [kind |-> "error", ptfs |-> <<>>, wealth |-> <<>>, error |-> error]

\* the last two statements of compute_history_values
HistoryValues(rets, list) ==
    IF list = <<>>
    THEN \* the index of an empty frame is not a DatetimeIndex: no strftime
         ErrorResult("AttributeError")
    ELSE IF \E i \in 1..(Len(ToDf(list)) - 1) : ToDf(list)[i].date >= ToDf(list)[i + 1].date
    THEN \* reindex with a method needs a monotonic, unique index
         ErrorResult("ValueError")
    ELSE [kind |-> "wealth", ptfs |-> list, error |-> "",
          wealth |-> [k \in 1..Len(rets) |->
                        [day |-> rets[k].day,
                         value |-> One + CumSum(rets, ToDf(list), k)]]]

(***************************************************************************)
(* Backtester.compute_portfolios                                           *)
(***************************************************************************)
SolveEndDate_WindowEnd(dates, idx) == dates[Len(dates)]

\* self.opt.solve(end_date=date) in iteration idx of enumerate(dates)
SolveEndDate(dates, idx) == dates[idx + 1]

EnterComputePortfolios(caller, progress_bar, rets) ==
    /\ bt_caller' = caller
    /\ bt_bar' = progress_bar
    /\ bt_dates' = DateRange(bt_start, bt_end, bt_freq)
    /\ bt_idx' = 0
    /\ bt_pending' = <<>>
    /\ bt_solve_log' = <<>>
    /\ bt_base' = Len(ptfs)
    /\ bt_rets' = rets
    /\ bt_result' = NoResult
    /\ bt_pc' = "loop"
    /\ UNCHANGED ptfs

ComputePortfolios(progress_bar) ==
    /\ bt_pc = "idle"
    /\ bt_ncalls < MaxCalls
    /\ bt_ncalls' = bt_ncalls + 1
    /\ EnterComputePortfolios("compute_portfolios", progress_bar, <<>>)
    /\ UNCHANGED calendarVars

\* the call raises: the caller gets the error, self.ptfs stays as it is
Raise(error) ==
    /\ bt_pc' = "idle"
    /\ bt_result' = ErrorResult(error)
    /\ bt_pending' = <<>>
    /\ UNCHANGED <<ptfs, bt_caller, bt_bar, bt_dates, bt_idx, bt_base, bt_rets,
                   bt_ncalls>>

\* one iteration up to the return of self.opt.solve
LoopSolve(outcome) ==
    /\ bt_pc = "loop"
    /\ bt_idx < Len(bt_dates)
    /\ IF ~bt_bar
       THEN \* bar.progress(...) with bar never assigned
            Raise("UnboundLocalError") /\ UNCHANGED bt_solve_log
       ELSE /\ bt_solve_log' = Append(bt_solve_log,
                                  [end_date |-> SolveEndDate(bt_dates, bt_idx),
                                   raised |-> outcome.raised])
            /\ IF outcome.raised
               THEN \* bar.error(e); raise e from e
                    Raise("SolveError")
               ELSE /\ bt_pc' = "solved"
                    /\ bt_pending' = <<EnginePortfolio(outcome.weights,
                                                       SolveEndDate(bt_dates, bt_idx))>>
                    /\ UNCHANGED <<ptfs, bt_caller, bt_bar, bt_dates, bt_idx, bt_base,
                                   bt_rets, bt_result, bt_ncalls>>
    /\ UNCHANGED calendarVars

\* self.ptfs.append(...)
LoopAppend ==
    /\ bt_pc = "solved"
    /\ ptfs' = Append(ptfs, bt_pending[1])
    /\ bt_pending' = <<>>
    /\ bt_idx' = bt_idx + 1
    /\ bt_pc' = "loop"
    /\ UNCHANGED <<bt_caller, bt_bar, bt_dates, bt_solve_log, bt_base, bt_rets,
                   bt_result, bt_ncalls>>
    /\ UNCHANGED calendarVars

\* bar.empty(); return self.ptfs -- and, under compute_history_values, the
\* rest of that method
LoopExit ==
    /\ bt_pc = "loop"
    /\ bt_idx = Len(bt_dates)
    /\ IF ~bt_bar
       THEN Raise("UnboundLocalError")
       ELSE /\ bt_pc' = "idle"
            /\ bt_result' =
                  IF bt_caller = "compute_portfolios"
                  THEN [kind |-> "portfolios", ptfs |-> ptfs, wealth |-> <<>>, error |-> ""]
                  ELSE HistoryValues(bt_rets, ptfs)
            /\ UNCHANGED <<ptfs, bt_caller, bt_bar, bt_dates, bt_idx, bt_pending,
                           bt_base, bt_rets, bt_ncalls>>
    /\ UNCHANGED bt_solve_log
    /\ UNCHANGED calendarVars

(***************************************************************************)
(* Backtester.compute_history_values                                       *)
(***************************************************************************)
ComputeHistoryValues(rets) ==
    /\ bt_pc = "idle"
    /\ bt_ncalls < MaxCalls
    /\ bt_ncalls' = bt_ncalls + 1
    /\ IF ptfs # <<>>
       THEN \* self.ptfs or ...: the stored list is used as it is
            /\ bt_caller' = "compute_history_values"
            /\ bt_rets' = rets
            /\ bt_result' = HistoryValues(rets, ptfs)
            /\ bt_dates' = <<>>
            /\ bt_idx' = 0
            /\ bt_solve_log' = <<>>
            /\ bt_base' = Len(ptfs)
            /\ UNCHANGED <<ptfs, bt_pc, bt_bar, bt_pending>>
       ELSE EnterComputePortfolios("compute_history_values", TRUE, rets)
    /\ UNCHANGED calendarVars

(***************************************************************************)
(* Optitrader.  The Solver it builds is seen from outside here: the call   *)
(* Solver(...).solve(...) is recorded with its arguments and either raises *)
(* or returns a Portfolio.                                                 *)
(***************************************************************************)
NaT == -3               \* pd.NaT

TWO_YEARS == 1460       \* pd.Timedelta(days=365 * 2), in half-days

FirstAvailable == -5154 \* pd.Timestamp("2015-12-12")

LastAvailable == UtcNow - 1   \* pd.Timestamp.utcnow() - 15 min

\* `if x:` on an int | None argument
Truthy(x) == x # NoBound /\ x # 0

\* ts - pd.Timedelta(...): None - Timedelta is NaT
SubtractTimedelta(ts, td) ==
    IF ts = NoTimestamp THEN NaT ELSE ts - td

\* start_date or end_date - pd.Timedelta(days=365 * 2)
DataStart(start_date, end_date) ==
    IF start_date # NoTimestamp
    THEN start_date
    ELSE SubtractTimedelta(end_date, TWO_YEARS)

BarsWindow_AnyGivenStart(start_date, end_date) ==
    [start |-> IF start_date # NoTimestamp THEN start_date ELSE FirstAvailable,
     end |-> IF end_date \notin {NoTimestamp, NaT} /\ end_date <= LastAvailable
             THEN end_date
             ELSE LastAvailable]

\* the window of daily bars that AlpacaMarketData.get_bars requests
BarsWindow(start_date, end_date) ==
    [start |-> IF start_date \notin {NoTimestamp, NaT} /\ start_date >= FirstAvailable
               THEN start_date
               ELSE FirstAvailable,
     end |-> IF end_date \notin {NoTimestamp, NaT} /\ end_date <= LastAvailable
             THEN end_date
             ELSE LastAvailable]

\* market_data.get_total_returns(tickers, start_date, end_date)
TotalReturnsRequest(start_date, end_date) ==
    [what |-> "get_total_returns", start_date |-> start_date, end_date |-> end_date,
     window |-> BarsWindow(start_date, end_date)]

\* market_data.get_multi_financials_by_item(tickers, financial_item)
FinancialsRequest ==
    [what |-> "get_multi_financials_by_item", start_date |-> NoTimestamp,
     end_date |-> NoTimestamp, window |-> BarsWindow(NoTimestamp, NoTimestamp)]

\* the asserts of main.py lines 130-136
ArgsRejected(args) ==
    /\ Truthy(args.num_assets)
    /\ (Truthy(args.min_num_assets) \/ Truthy(args.max_num_assets))

AddedConstraints_AlwaysCardinality(args) ==
    IF Truthy(args.num_assets)
    THEN <<NumberOfAssetsConstraint(args.num_assets, args.num_assets)>>
    ELSE <<>>

\* the constraints that lines 130-161 add for these arguments
AddedConstraints(args) ==
    IF Truthy(args.num_assets)
    THEN IF args.num_assets = NumAssets
         THEN <<WeightsConstraint(1, args.max_weight_pct)>>
         ELSE <<NumberOfAssetsConstraint(args.num_assets, args.num_assets)>>
    ELSE IF Truthy(args.min_num_assets) \/ Truthy(args.max_num_assets)
    THEN <<NumberOfAssetsConstraint(args.min_num_assets, args.max_num_assets)>>
    ELSE IF Truthy(args.min_weight_pct) \/ Truthy(args.max_weight_pct)
    THEN <<WeightsConstraint(args.min_weight_pct, args.max_weight_pct)>>
    ELSE <<>>

NoEngineResult == [kind |-> "none", error |-> "", portfolio |-> <<>>]

\* Optitrader.solve(**args); outcome is what Solver(...).solve(...) does
OptitraderSolve(args, outcome) ==
    /\ e_ncalls < MaxEngineCalls
    /\ e_ncalls' = e_ncalls + 1
    /\ e_args' = args
    /\ e_before' = e_constraints
    /\ IF ArgsRejected(args)
       THEN /\ e_result' = [kind |-> "error", error |-> "AssertionError",
                            portfolio |-> <<>>]
            /\ e_fetches' = <<>>
            /\ e_built' = <<>>
            /\ UNCHANGED e_constraints
       ELSE /\ e_constraints' = e_constraints \o AddedConstraints(args)
            /\ e_fetches' =
                  <<TotalReturnsRequest(DataStart(args.start_date, args.end_date),
                                        args.end_date)>>
                  \o (IF FINANCIALS \in SeqToSet(Names(e_objectives))
                      THEN <<FinancialsRequest>>
                      ELSE <<>>)
            /\ e_built' = <<[constraints |-> e_constraints \o AddedConstraints(args),
                             objectives |-> e_objectives,
                             financials_df |->
                                 FINANCIALS \in SeqToSet(Names(e_objectives)),
                             weights_tolerance |-> args.weights_tolerance,
                             created_at |-> args.end_date]>>
            /\ e_result' =
                  IF outcome.raised
                  THEN [kind |-> "error", error |-> "SolveError", portfolio |-> <<>>]
                  ELSE [kind |-> "portfolio", error |-> "",
                        portfolio |-> <<NewPortfolio(outcome.weights,
                                                     ObjectiveValues(e_objectives),
                                                     args.end_date)>>]
    /\ UNCHANGED e_objectives

(***************************************************************************)
(* Portfolio object.  A pandas Series is an object on the heap with its    *)
(* values (by asset), its name and the decimals it was rounded to; the     *)
(* Series that an operation creates for itself are dropped when it ends.   *)
(***************************************************************************)
NoMarketData == "None"

NoRounding == -1        \* round_to_decimal = None

SelfWeights == 1        \* object id of the Series behind Portfolio.weights

Temporary == 2          \* object id of the Series an operation creates

Series(values) == [values |-> values, name |-> "", decimals |-> NoRounding]

\* Portfolio(weights, objective_values, market_data, created_at)
PortfolioInit(weights, objective_values, market_data, created_at) ==
    /\ p_pc = "none"
    /\ p_arg_weights' = weights
    /\ p_nops' = 0
    /\ IF ~PortfolioAccepts(weights)
       THEN /\ p_pc' = "ctor_failed"
            /\ p_result' = [op |-> "__init__", error |-> "AssertionError", value |-> <<>>]
            /\ UNCHANGED <<p_heap, p_weights, p_objective_values, p_created_at,
                           p_market_data>>
       ELSE /\ p_pc' = "live"
            /\ p_heap' = (SelfWeights :> Series(weights))
            /\ p_weights' = SelfWeights
            /\ p_objective_values' = objective_values
            /\ p_created_at' = IF created_at = NoTimestamp THEN UtcNow ELSE created_at
            /\ p_market_data' = market_data
            /\ p_result' = [op |-> "__init__", error |-> "", value |-> <<>>]

\* series[series != 0]: a new Series holding the non-zero entries
BooleanMask(heap, id) ==
    LET old == heap[id].values
        kept == {a \in DOMAIN old : old[a] # 0}
    IN [heap |-> (Temporary :> [heap[id] EXCEPT !.values = [a \in kept |-> old[a]]])
                 @@ heap,
        id |-> Temporary]

\* series.round(decimals): a new Series
Rounded(heap, id, decimals) ==
    [heap |-> (Temporary :> [heap[id] EXCEPT !.decimals = decimals]) @@ heap,
     id |-> Temporary]

NonZeroWeightsOf_SelfWeights(heap, round_to_decimal) == [heap |-> heap, id |-> p_weights]

\* Portfolio.get_non_zero_weights(round_to_decimal), on this heap
NonZeroWeightsOf(heap, round_to_decimal) ==
    LET non_zero == BooleanMask(heap, p_weights) IN
    IF round_to_decimal # NoRounding /\ round_to_decimal # 0
    THEN Rounded(non_zero.heap, non_zero.id, round_to_decimal)
    ELSE non_zero

\* the operation ends: its result is handed out by value and the Series it
\* created are dropped
Finish(op, heap, value, error) ==
    /\ p_nops < MaxOps
    /\ p_nops' = p_nops + 1
    /\ p_heap' = [id \in {p_weights} |-> heap[id]]
    /\ p_result' = [op |-> op, error |-> error, value |-> value]
    /\ UNCHANGED <<p_pc, p_arg_weights, p_weights, p_objective_values, p_created_at>>

\* tuple(series.keys())
RECURSIVE KeysIn(_)
KeysIn(assets) ==
    IF assets = {} THEN <<>>
    ELSE LET first == CHOOSE a \in assets : \A b \in assets : a <= b
         IN  <<first>> \o KeysIn(assets \ {first})

Keys(series) == KeysIn(DOMAIN series.values)

\* series.sort_values(ascending=False).keys()
RECURSIVE SortedByWeight(_, _)
SortedByWeight(values, assets) ==
    IF assets = {} THEN <<>>
    ELSE LET top == CHOOSE a \in assets :
                       \A b \in assets :
                          values[a] > values[b] \/ (values[a] = values[b] /\ a <= b)
         IN  <<top>> \o SortedByWeight(values, assets \ {top})

\* Portfolio.get_non_zero_weights(round_to_decimal)
GetNonZeroWeights(round_to_decimal) ==
    /\ p_pc = "live"
    /\ LET weights == NonZeroWeightsOf(p_heap, round_to_decimal) IN
       Finish("get_non_zero_weights", weights.heap, weights.heap[weights.id], "")
    /\ UNCHANGED p_market_data

\* Portfolio.get_tickers(only_non_zero)
GetTickers(only_non_zero) ==
    /\ p_pc = "live"
    /\ LET weights == IF only_non_zero
                      THEN NonZeroWeightsOf(p_heap, 5)
                      ELSE [heap |-> p_heap, id |-> p_weights]
       IN Finish("get_tickers", weights.heap, Keys(weights.heap[weights.id]), "")
    /\ UNCHANGED p_market_data

\* Portfolio.set_market_data(market_data)
SetMarketData(market_data) ==
    /\ p_pc = "live"
    /\ p_market_data' = market_data
    /\ Finish("set_market_data", p_heap, <<>>, "")

\* the frame of get_assets_df: the collaborator's rows for these tickers next
\* to the Series named "weight_in_ptf"
AssetsDf(heap) ==
    LET weights == NonZeroWeightsOf(heap, 5)
        named == [weights.heap EXCEPT ![weights.id].name = "weight_in_ptf"]
    IN [heap |-> named,
        value |-> [tickers |-> Keys(named[weights.id]), column |-> named[weights.id]]]

\* Portfolio.get_assets_df()
GetAssetsDf ==
    /\ p_pc = "live"
    /\ IF p_market_data = NoMarketData
       THEN Finish("get_assets_df", p_heap, <<>>, "AssertionError")
       ELSE Finish("get_assets_df", AssetsDf(p_heap).heap, AssetsDf(p_heap).value, "")
    /\ UNCHANGED p_market_data

\* Portfolio.get_holdings_df()
GetHoldingsDf ==
    /\ p_pc = "live"
    /\ IF p_market_data = NoMarketData
       THEN Finish("get_holdings_df", p_heap, <<>>, "AssertionError")
       ELSE LET df == AssetsDf(p_heap) IN
            Finish("get_holdings_df", df.heap,
                   [df.value EXCEPT !.tickers =
                       SortedByWeight(df.value.column.values,
                                      DOMAIN df.value.column.values)],
                   "")
    /\ UNCHANGED p_market_data

RECURSIVE HistorySum(_, _, _)
HistorySum(rets, weights, k) ==
    IF k = 0 THEN 0
    ELSE HistorySum(rets, weights, k - 1)
         + SumOver([a \in DOMAIN weights |-> rets[k][a] * weights[a]], DOMAIN weights)

\* Portfolio.get_history(start_date, end_date); rets is what the market data
\* returns for the tickers
GetHistory(rets) ==
    /\ p_pc = "live"
    /\ IF p_market_data = NoMarketData
       THEN Finish("get_history", p_heap, <<>>, "AssertionError")
       ELSE LET weights == NonZeroWeightsOf(p_heap, 5) IN
            Finish("get_history", weights.heap,
                   [k \in 1..Len(rets) |->
                       One + HistorySum(rets, weights.heap[weights.id].values, k)],
                   "")
    /\ UNCHANGED p_market_data

\* Portfolio.to_orders_list(amount): one order per non-zero weight, largest
\* first, whose notional weight * amount is at least 1
ToOrdersList(amount) ==
    /\ p_pc = "live"
    /\ LET weights == NonZeroWeightsOf(p_heap, 5)
           values == weights.heap[weights.id].values
           sorted == SortedByWeight(values, DOMAIN values)
       IN Finish("to_orders_list", weights.heap,
                 SelectSeq([k \in 1..Len(sorted) |->
                               [symbol |-> sorted[k], notional |-> values[sorted[k]] * amount]],
                           LAMBDA order : order.notional >= WeightScale),
                 "")
    /\ UNCHANGED p_market_data

(***************************************************************************)
(* ConstraintsMap.  A constraint object is either one of the four objects  *)
(* of constraint_mapping or one the caller handed to the constructor; the  *)
(* list holds references, and the bounds live in the objects.              *)
(***************************************************************************)
ConstraintNames == {SUM_TO_ONE, LONG_ONLY, NUMER_OF_ASSETS, WEIGHTS_PCT}

\* ConstraintName.is_bounded
IsBounded(name) == name \in {NUMER_OF_ASSETS, WEIGHTS_PCT}

Owners == {"constraint_mapping", "caller"}

Ref(owner, name) == [owner |-> owner, name |-> name]

Bounds(lower_bound, upper_bound) == [lower_bound |-> lower_bound, upper_bound |-> upper_bound]

BoundedRefs == {Ref(owner, name) : owner \in Owners, name \in {NUMER_OF_ASSETS, WEIGHTS_PCT}}

\* the objects of constraint_mapping as ConstraintsMap.__init__ builds them
DefaultBounds == [ref \in BoundedRefs |-> Bounds(NoBound, NoBound)]

\* BoundedConstraint.set_bounds on the object behind ref
SetBounds(bounds, ref, lower_bound, upper_bound) ==
    [bounds EXCEPT ![ref] = Bounds(lower_bound, upper_bound)]

\* ConstraintsMap.to_constraint(name, lower_bound, upper_bound): the object
\* of constraint_mapping, with its bounds overwritten if it has bounds
ToConstraint(bounds, name, lower_bound, upper_bound) ==
    [constr |-> Ref("constraint_mapping", name),
     bounds |-> IF IsBounded(name)
                THEN SetBounds(bounds, Ref("constraint_mapping", name),
                               lower_bound, upper_bound)
                ELSE bounds]

\* [self.to_constraint(name) for name in constraint_names]
RECURSIVE ToConstraints(_, _)
ToConstraints(bounds, constraint_names) ==
    IF constraint_names = <<>>
    THEN [constraints |-> <<>>, bounds |-> bounds]
    ELSE LET head == ToConstraint(bounds, Head(constraint_names), NoBound, NoBound)
             rest == ToConstraints(head.bounds, Tail(constraint_names))
         IN  [constraints |-> <<head.constr>> \o rest.constraints,
              bounds |-> rest.bounds]

NoList == <<"None">>    \* an argument left at None

\* ConstraintsMap(constraints, constraint_names); caller_bounds are the
\* bounds of the objects in constraints
ConstraintsMapInit(constraints, caller_bounds, constraint_names) ==
    /\ cm_pc = "none"
    /\ cm_pc' = "live"
    /\ cm_ncalls' = 0
    /\ cm_result' = [op |-> "__init__", name |-> "", error |-> ""]
    /\ LET given == [ref \in BoundedRefs |->
                        IF ref.owner = "caller" THEN caller_bounds[ref.name]
                        ELSE DefaultBounds[ref]]
       IN
       IF constraint_names \in {NoList, <<>>}
       THEN /\ cm_constraints' = <<>>
            /\ cm_bounds' = given
       ELSE IF constraints \notin {NoList, <<>>}
       THEN /\ cm_constraints' = [k \in 1..Len(constraints) |-> Ref("caller", constraints[k])]
            /\ cm_bounds' = given
       ELSE /\ cm_constraints' = ToConstraints(given, constraint_names).constraints
            /\ cm_bounds' = ToConstraints(given, constraint_names).bounds

\* `name not in self.constraints_names`
NameAbsent_Always(name, constraints) == TRUE

NameAbsent(name, constraints) == name \notin SeqToSet(Names(constraints))

\* the body of ConstraintsMap.add_constraint
Added(constraints, bounds, name, lower_bound, upper_bound) ==
    IF NameAbsent(name, constraints)
    THEN [constraints |-> Append(constraints,
                                 ToConstraint(bounds, name, lower_bound, upper_bound).constr),
          bounds |-> ToConstraint(bounds, name, lower_bound, upper_bound).bounds]
    ELSE [constraints |-> constraints, bounds |-> bounds]

\* a call on the map returns or raises
MapCall(op, name, constraints, bounds, error) ==
    /\ cm_ncalls' = cm_ncalls + 1
    /\ cm_constraints' = constraints
    /\ cm_bounds' = bounds
    /\ cm_result' = [op |-> op, name |-> name, error |-> error]
    /\ UNCHANGED cm_pc

\* ConstraintsMap.add_constraint(name, lower_bound, upper_bound)
AddConstraint(name, lower_bound, upper_bound) ==
    /\ cm_pc = "live"
    /\ cm_ncalls < MaxMapCalls
    /\ LET added == Added(cm_constraints, cm_bounds, name, lower_bound, upper_bound) IN
       MapCall("add_constraint", name, added.constraints, added.bounds, "")

\* the loop of set_constraint_bounds over the constraints named name
RECURSIVE SetBoundsOfNamed(_, _, _, _, _)
SetBoundsOfNamed(constraints, bounds, name, lower_bound, upper_bound) ==
    IF constraints = <<>> THEN bounds
    ELSE SetBoundsOfNamed(Tail(constraints),
                          IF Head(constraints).name = name
                          THEN SetBounds(bounds, Head(constraints), lower_bound, upper_bound)
                          ELSE bounds,
                          name, lower_bound, upper_bound)

\* ConstraintsMap.set_constraint_bounds(name, lower_bound, upper_bound)
SetConstraintBounds(name, lower_bound, upper_bound) ==
    /\ cm_pc = "live"
    /\ cm_ncalls < MaxMapCalls
    /\ IF ~IsBounded(name) \/ ~(Truthy(lower_bound) \/ Truthy(upper_bound))
       THEN MapCall("set_constraint_bounds", name, cm_constraints, cm_bounds,
                    "AssertionError")
       ELSE IF name \in SeqToSet(Names(cm_constraints))
       THEN MapCall("set_constraint_bounds", name, cm_constraints,
                    SetBoundsOfNamed(cm_constraints, cm_bounds, name,
                                     lower_bound, upper_bound),
                    "")
       ELSE LET added == Added(cm_constraints, cm_bounds, name, lower_bound, upper_bound) IN
            MapCall("set_constraint_bounds", name, added.constraints, added.bounds, "")

(***************************************************************************)
(* ObjectivesMap                                                           *)
(***************************************************************************)
ObjectiveNames == {MOST_DIVERSIFIED, CVAR, COVARIANCE, EXPECTED_RETURNS,
                   MEAN_ABSOLUTE_DEVIATION, FINANCIALS}

\* ObjectivesMap.objective_mapping
ObjectiveMapping(name) ==
    CASE name = CVAR -> "CVaRObjectiveFunction"
      [] name = EXPECTED_RETURNS -> "ExpectedReturnsObjectiveFunction"
      [] name = MEAN_ABSOLUTE_DEVIATION -> "MADObjectiveFunction"
      [] name = COVARIANCE -> "CovarianceObjectiveFunction"
      [] name = FINANCIALS -> "FinancialsObjectiveFunction"
      [] name = MOST_DIVERSIFIED -> "MostDiversifiedObjectiveFunction"

\* ObjectivesMap.to_objective(name, weight): every class of the mapping
\* passes its own ObjectiveName to PortfolioObjective.__init__
ToObjective(name, weight) ==
    [cls |-> ObjectiveMapping(name), name |-> name, weight |-> weight]

\* ObjectivesMap(objectives)
ObjectivesMapInit(objectives) ==
    /\ om_pc = "none"
    /\ om_pc' = "live"
    /\ om_arg' = objectives
    /\ om_objectives' = IF objectives \in {NoList, <<>>} THEN <<>> ELSE objectives
    /\ om_calls' = <<>>

\* get_objective_by_name(name): the position of the first objective so named
FirstNamed(objectives, name) ==
    CHOOSE i \in 1..Len(objectives) :
       /\ objectives[i].name = name
       /\ \A j \in 1..(i - 1) : objectives[j].name # name

Reweighted_Kept(objectives, name, weight) == objectives

\* obj = self.get_objective_by_name(name); obj.weight = weight
Reweighted(objectives, name, weight) ==
    [objectives EXCEPT ![FirstNamed(objectives, name)].weight = weight]

\* ObjectivesMap.add_objective(name, weight)
AddObjective(name, weight) ==
    /\ om_pc = "live"
    /\ Len(om_calls) < MaxMapCalls
    /\ om_calls' = Append(om_calls, [name |-> name, weight |-> weight])
    /\ om_objectives' =
          IF name \notin SeqToSet(Names(om_objectives))
          THEN Append(om_objectives, ToObjective(name, weight))
          ELSE Reweighted(om_objectives, name, weight)
    /\ UNCHANGED <<om_pc, om_arg>>

(***************************************************************************)
(* SessionManager on the home page.  A change of a widget runs the         *)
(* widget's on_change callback, if it has one, and the rerun of the page   *)
(* stores the widget's value in the session; a click on the button reruns  *)
(* the page with run_optimization's st.button returning True.              *)
(***************************************************************************)
\* SessionManager.__init__
DefaultParams ==
    [universe_name |-> "FAANG",
     objective_names |-> <<CVAR>>,
     objective_weight |-> 1,
     constraint_names |-> <<SUM_TO_ONE, LONG_ONLY>>,
     lower_bound |-> 2,
     start_date |-> UtcNow - TWO_YEARS]

SessionFresh ==
    /\ sm_params = DefaultParams
    /\ sm_opt_ptf = <<>>
    /\ sm_last = [event |-> "", cached |-> FALSE, solved |-> FALSE]

\* SessionManager._clean_opt_ptf
CleanOptPtf == <<>>

\* the user changes the widget behind this parameter
WidgetChanged(event, param, value, on_change) ==
    /\ value # sm_params[param]
    /\ sm_params' = [sm_params EXCEPT ![param] = value]
    /\ sm_opt_ptf' = IF on_change = "_clean_opt_ptf" THEN CleanOptPtf ELSE sm_opt_ptf
    /\ sm_last' = [event |-> event, cached |-> sm_opt_ptf # <<>>, solved |-> FALSE]

\* set_universe_name: _from_selectbox with on_change = _change_universe
SetUniverseName(value) ==
    WidgetChanged("set_universe_name", "universe_name", value, "_clean_opt_ptf")

\* set_objective_names: _from_multiselect with on_change = _clean_opt_ptf
SetObjectiveNames(value) ==
    WidgetChanged("set_objective_names", "objective_names", value, "_clean_opt_ptf")

\* set_constraint_names: _from_multiselect with on_change = _clean_opt_ptf
SetConstraintNames(value) ==
    WidgetChanged("set_constraint_names", "constraint_names", value, "_clean_opt_ptf")

\* set_objectives: st.number_input with on_change = _clean_opt_ptf
SetObjectives(value) ==
    WidgetChanged("set_objectives", "objective_weight", value, "_clean_opt_ptf")

\* set_constraints: st.number_input with on_change = _clean_opt_ptf
SetConstraints(value) ==
    WidgetChanged("set_constraints", "lower_bound", value, "_clean_opt_ptf")

\* set_start_date: st.date_input without on_change
SetStartDate(value) ==
    WidgetChanged("set_start_date", "start_date", value, "None")

\* run_optimization with the button clicked; outcome is what opt.solve does
RunOptimization(outcome) ==
    /\ sm_last' = [event |-> "run_optimization", cached |-> sm_opt_ptf # <<>>,
                   solved |-> sm_opt_ptf = <<>>]
    /\ sm_opt_ptf' = IF sm_opt_ptf = <<>> /\ outcome = "portfolio"
                     THEN <<[solved_for |-> sm_params]>>
                     ELSE sm_opt_ptf
    /\ UNCHANGED sm_params

(***************************************************************************)
(* Specifications.                                                         *)
(***************************************************************************)
LastDay == MonthEndDay(HorizonMonths - 1)

\* the fields and locals that Backtester.__init__ does not take from its
\* arguments
BacktesterFresh ==
    /\ bt_rebalance_dates = NotCalled
    /\ ptfs = <<>>
    /\ bt_pc = "idle"
    /\ bt_caller = ""
    /\ bt_bar = TRUE
    /\ bt_dates = <<>>
    /\ bt_idx = 0
    /\ bt_pending = <<>>
    /\ bt_solve_log = <<>>
    /\ bt_base = 0
    /\ bt_rets = <<>>
    /\ bt_result = NoResult
    /\ bt_ncalls = 0

BacktesterIdle ==
    /\ bt_start = 0
    /\ bt_end = 0
    /\ bt_freq = MONTHLY
    /\ BacktesterFresh

\* Optitrader(objectives, ...) with the default constraints
EngineObjectiveLists ==
    {<<CVaRObjectiveFunction(1)>>,
     <<CovarianceObjectiveFunction(1), FinancialsObjectiveFunction(1)>>}

EngineFresh ==
    /\ e_constraints = <<SumToOneConstraint, NoShortSellConstraint>>
    /\ e_args = <<>>
    /\ e_before = <<>>
    /\ e_fetches = <<>>
    /\ e_built = <<>>
    /\ e_result = NoEngineResult
    /\ e_ncalls = 0

EngineIdle ==
    /\ e_objectives = <<CVaRObjectiveFunction(1)>>
    /\ EngineFresh

PortfolioNone ==
    /\ p_pc = "none"
    /\ p_arg_weights = <<>>
    /\ p_heap = <<>>
    /\ p_weights = SelfWeights
    /\ p_objective_values = <<>>
    /\ p_created_at = NoTimestamp
    /\ p_market_data = NoMarketData
    /\ p_result = [op |-> "", error |-> "", value |-> <<>>]
    /\ p_nops = 0

MapNone ==
    /\ cm_pc = "none"
    /\ cm_constraints = <<>>
    /\ cm_bounds = DefaultBounds
    /\ cm_result = [op |-> "", name |-> "", error |-> ""]
    /\ cm_ncalls = 0

ObjectivesMapNone ==
    /\ om_pc = "none"
    /\ om_arg = <<>>
    /\ om_objectives = <<>>
    /\ om_calls = <<>>

ObjectsNone == PortfolioNone /\ MapNone /\ ObjectivesMapNone /\ SessionFresh

OthersIdle == EngineIdle /\ ObjectsNone

Init == SolverStart /\ BacktesterIdle /\ OthersIdle

Next == SolverStep /\ UNCHANGED <<calendarVars, loopVars, otherVars>>

Spec == Init /\ [][Next]_vars

\* Solver(returns, objectives, constraints, financials_df) over objective
\* lists with weights, repeated names, Financials objectives and objectives
\* of the caller's own classes
ObjectiveObjectLists ==
    {<<>>,
     <<CVaRObjectiveFunction(1), CVaRObjectiveFunction(2)>>,
     <<CVaRObjectiveFunction(2), CovarianceObjectiveFunction(1)>>,
     <<FinancialsObjectiveFunction(1)>>,
     <<CovarianceObjectiveFunction(1), FinancialsObjectiveFunction(2)>>,
     <<CallerObjective(FINANCIALS, 1)>>,
     <<CallerObjective(CVAR, 2), CVaRObjectiveFunction(1)>>,
     <<ToObjective(EXPECTED_RETURNS, 2), ToObjective(MEAN_ABSOLUTE_DEVIATION, 3)>>,
     <<ToObjective(MOST_DIVERSIFIED, 2), CovarianceObjectiveFunction(1)>>}

ObjectiveNext ==
    /\ SolverStepOver(ObjectiveObjectLists,
                      {<<SumToOneConstraint, NoShortSellConstraint>>},
                      FinancialsFrames)
    /\ UNCHANGED <<calendarVars, loopVars, otherVars>>

ObjectiveSpec == Init /\ [][ObjectiveNext]_vars

\* Backtester(opt, rebal_freq, end, start) over long windows
CalendarStartTimes ==
    {Midnight(d) + h : d \in {0, 6, 7, 30, 31, 58, 89}, h \in {0, 1}}

CalendarEndTimes ==
    {Midnight(d) + h : d \in {5, 29, 30, 61, 62, 120, 364, 395, LastDay}, h \in {0, 1}}

CalendarInit ==
    /\ SolverStart
    /\ bt_start \in CalendarStartTimes
    /\ bt_end \in CalendarEndTimes
    /\ bt_freq \in RebalanceFrequencies
    /\ BacktesterFresh
    /\ OthersIdle

CalendarNext == GetRebalanceDates /\ UNCHANGED <<solverVars, otherVars>>

CalendarSpec == CalendarInit /\ [][CalendarNext]_vars

\* Backtester(opt, rebal_freq, end, start) over windows of at most two
\* rebalance dates
BacktestWindows ==
    {[start |-> Midnight(0), end |-> Midnight(61), freq |-> MONTHLY],
     [start |-> Midnight(30) + 1, end |-> Midnight(61), freq |-> MONTHLY],
     [start |-> Midnight(0), end |-> Midnight(8), freq |-> WEEKLY],
     [start |-> Midnight(3), end |-> Midnight(9), freq |-> WEEKLY],
     [start |-> Midnight(1), end |-> Midnight(5), freq |-> WEEKLY]}

BacktestInit ==
    /\ SolverStart
    /\ \E w \in BacktestWindows :
          /\ bt_start = w.start
          /\ bt_end = w.end
          /\ bt_freq = w.freq
    /\ BacktesterFresh
    /\ OthersIdle

BacktestStep ==
    \/ GetRebalanceDates
    \/ \E progress_bar \in BOOLEAN : ComputePortfolios(progress_bar)
    \/ /\ bt_pc = "loop"
       /\ \E outcome \in EngineOutcomes : LoopSolve(outcome)
    \/ LoopAppend
    \/ LoopExit
    \/ /\ bt_pc = "idle"
       /\ bt_ncalls < MaxCalls
       /\ \E rets \in TotalReturns(bt_start, bt_end, bt_freq) :
             ComputeHistoryValues(rets)

BacktestNext == BacktestStep /\ UNCHANGED <<solverVars, otherVars>>

BacktestSpec == BacktestInit /\ [][BacktestNext]_vars

\* Optitrader.solve(...) calls on one Optitrader
EngineTolerance == 0    \* weights_tolerance = 0.000001, below one weight unit

NoArgs ==
    [start_date |-> NoTimestamp, end_date |-> NoTimestamp,
     weights_tolerance |-> EngineTolerance,
     num_assets |-> NoBound, min_num_assets |-> NoBound, max_num_assets |-> NoBound,
     max_weight_pct |-> NoBound, min_weight_pct |-> NoBound]

EngineArgs ==
    {[NoArgs EXCEPT !.start_date = s, !.end_date = e] :
        s \in {NoTimestamp, -400, FirstAvailable - 100}, e \in {NoTimestamp, -20, 40}}
    \cup {[NoArgs EXCEPT !.num_assets = n, !.min_num_assets = lo, !.max_num_assets = hi,
                         !.end_date = -20] :
             n \in {NoBound, 0, NumAssets - 1, NumAssets},
             lo \in {NoBound, 0, NumAssets - 1}, hi \in {NoBound, NumAssets - 1}}
    \cup {[NoArgs EXCEPT !.num_assets = n, !.min_weight_pct = lo, !.max_weight_pct = hi,
                         !.end_date = -20] :
             n \in {NoBound, NumAssets}, lo \in {NoBound, 10}, hi \in {NoBound, 50}}

EngineInit ==
    /\ SolverStart
    /\ BacktesterIdle
    /\ e_objectives \in EngineObjectiveLists
    /\ EngineFresh
    /\ ObjectsNone

EngineNext ==
    /\ \E args \in EngineArgs, outcome \in EngineOutcomes : OptitraderSolve(args, outcome)
    /\ UNCHANGED <<solverVars, calendarVars, loopVars, portfolioVars, mapVars,
                   objectivesMapVars, sessionVars>>

EngineSpec == EngineInit /\ [][EngineNext]_vars

\* Portfolio(weights, ...) over weight vectors of any sum, and the
\* operations on the Portfolio
WeightVectors == {<<>>} \cup [Assets -> 0..(WeightScale \div 2 + 1)]

MarketDatas == {NoMarketData, "market_data"}

PortfolioStep ==
    \/ \E weights \in WeightVectors, market_data \in MarketDatas,
          created_at \in {NoTimestamp, 2} :
          PortfolioInit(weights, ObjectiveValues(<<CVaRObjectiveFunction(1)>>),
                        market_data, created_at)
    \/ \E round_to_decimal \in {NoRounding, 0, 5} : GetNonZeroWeights(round_to_decimal)
    \/ \E only_non_zero \in BOOLEAN : GetTickers(only_non_zero)
    \/ SetMarketData("market_data")
    \/ GetAssetsDf
    \/ GetHoldingsDf
    \/ \E rets \in [1..2 -> ReturnRows] : GetHistory(rets)
    \/ \E amount \in {1, 4} : ToOrdersList(amount)

PortfolioNext ==
    /\ PortfolioStep
    /\ UNCHANGED <<solverVars, calendarVars, loopVars, engineVars, mapVars,
                   objectivesMapVars, sessionVars>>

PortfolioSpec == Init /\ [][PortfolioNext]_vars

\* ConstraintsMap(...) over lists without a repeated name, and the calls
\* that add constraints and set bounds
MapBounds == {NoBound, 0, 2}

NameLists == {NoList, <<>>, <<SUM_TO_ONE, LONG_ONLY>>, <<NUMER_OF_ASSETS>>,
              <<WEIGHTS_PCT, SUM_TO_ONE, NUMER_OF_ASSETS>>}

CallerLists == {NoList, <<NUMER_OF_ASSETS>>, <<LONG_ONLY, WEIGHTS_PCT>>}

CallerBounds == {[name \in {NUMER_OF_ASSETS, WEIGHTS_PCT} |-> Bounds(NoBound, NoBound)],
                 [name \in {NUMER_OF_ASSETS, WEIGHTS_PCT} |-> Bounds(1, 2)]}

MapStep ==
    \/ \E constraints \in CallerLists, caller_bounds \in CallerBounds,
          constraint_names \in NameLists :
          ConstraintsMapInit(constraints, caller_bounds, constraint_names)
    \/ \E name \in ConstraintNames, lower_bound \in MapBounds, upper_bound \in MapBounds :
          AddConstraint(name, lower_bound, upper_bound)
    \/ \E name \in ConstraintNames, lower_bound \in MapBounds, upper_bound \in MapBounds :
          SetConstraintBounds(name, lower_bound, upper_bound)

MapNext ==
    /\ MapStep
    /\ UNCHANGED <<solverVars, calendarVars, loopVars, engineVars, portfolioVars,
                   objectivesMapVars, sessionVars>>

MapSpec == Init /\ [][MapNext]_vars

\* ObjectivesMap(...) and the add_objective calls made on it
ObjectiveWeights == {0, 1, 2}

ObjectivesMapStep ==
    \/ \E objectives \in {NoList, <<>>, <<CVaRObjectiveFunction(2), CVaRObjectiveFunction(1)>>} :
          ObjectivesMapInit(objectives)
    \/ \E name \in ObjectiveNames, weight \in ObjectiveWeights : AddObjective(name, weight)

ObjectivesMapNext ==
    /\ ObjectivesMapStep
    /\ UNCHANGED <<solverVars, calendarVars, loopVars, engineVars, portfolioVars, mapVars,
                   sessionVars>>

ObjectivesMapSpec == Init /\ [][ObjectivesMapNext]_vars

\* the home page: the user changes widgets and clicks the button
SessionStep ==
    \/ \E value \in {"FAANG", "NASDAQ"} : SetUniverseName(value)
    \/ \E value \in {<<CVAR>>, <<CVAR, COVARIANCE>>} : SetObjectiveNames(value)
    \/ \E value \in {UtcNow - TWO_YEARS, -400} : SetStartDate(value)
    \/ \E value \in {<<SUM_TO_ONE, LONG_ONLY>>,
                      <<SUM_TO_ONE, LONG_ONLY, NUMER_OF_ASSETS>>} : SetConstraintNames(value)
    \/ \E value \in {1, 2} : SetObjectives(value)
    \/ \E value \in {2, 3} : SetConstraints(value)
    \/ \E outcome \in {"portfolio", "AssertionError", "SolverError"} :
          RunOptimization(outcome)

SessionNext ==
    /\ SessionStep
    /\ UNCHANGED <<solverVars, calendarVars, loopVars, engineVars, portfolioVars, mapVars,
                   objectivesMapVars>>

SessionSpec == Init /\ [][SessionNext]_vars

(***************************************************************************)
(* Properties of the Solver.                                               *)
(***************************************************************************)
HasSumToOneAndNoShortSell ==
    SeqToSet(Names(s_constraints)) = {SUM_TO_ONE, LONG_ONLY}

\* C1: with the constraints {SumToOne, NoShortSell}, every Portfolio returned
\* by solve(weights_tolerance = t) has emitted weights w with
\* 1 - sum(w) <= t and every w_i >= 0.
C1_EmittedWeightsWithinTolerance ==
    (s_pc = "done" /\ HasSumToOneAndNoShortSell) =>
        LET w == s_portfolios[1].weights IN
        /\ s_tol # TolNone => WeightScale - SumSeq(w) <= s_tol
        /\ \A a \in Assets : w[a] >= 0

\* C2: a returns matrix with at least one NaN cell makes the construction of
\* the Solver fail; no Solver exists for it, the backend is never invoked
\* and no Portfolio is produced.
C2_NaNReturnsRejectedAtConstruction ==
    (s_pc # "none" /\ \E r \in 1..ReturnsRows, a \in Assets : s_arg_returns[r][a]) =>
        /\ s_pc = "ctor_failed"
        /\ s_error.type = "AssertionError"
        /\ s_returns = <<>>
        /\ s_calls = <<>>
        /\ s_portfolios = <<>>

C2_Witness ==
    /\ s_pc = "ctor_failed"
    /\ Cardinality({<<r, a>> \in (1..ReturnsRows) \X Assets : s_arg_returns[r][a]}) = 1
    /\ s_arg_returns[ReturnsRows][NumAssets]

LastCallReturned ==
    /\ s_calls # <<>>
    /\ s_calls[Len(s_calls)].kind = "returned"

\* C3: when the backend's last invocation reported a status other than
\* "optimal", solve fails with an error naming that status and creates no
\* Portfolio.
C3_NonOptimalStatusFails ==
    /\ (s_pc \in {"done", "solve_failed"} /\ LastCallReturned /\ s_status # "optimal") =>
          /\ s_pc = "solve_failed"
          /\ s_error.type = "AssertionError"
          /\ s_error.detail = s_status
    /\ (LastCallReturned /\ s_status # "optimal") => s_portfolios = <<>>

C3_Witness ==
    /\ s_pc = "solve_failed"
    /\ LastCallReturned
    /\ s_status = "optimal_inaccurate"
    /\ s_error.detail = "optimal_inaccurate"

SolveCallOver == s_pc \in {"backend_done", "done", "solve_failed"}

\* the cvxpy problem of this Solver can be assembled
ProblemAssembles ==
    /\ s_objectives # <<>>
    /\ \A k \in 1..Len(s_constraints) : BoundsAccepted(s_constraints[k])

\* C4: solve (once the problem is assembled) invokes the backend first with
\* the requested configuration, a second time with the default configuration
\* if and only if the first invocation raised a solver error, never a third
\* time, and a solver error of the second invocation propagates to the caller.
C4_SingleDefaultConfigurationRetry ==
    /\ Len(s_calls) <= 2
    /\ (SolveCallOver /\ ProblemAssembles) => Len(s_calls) >= 1
    /\ Len(s_calls) >= 1 => s_calls[1].solver = RequestedSolver
    /\ Len(s_calls) = 2 =>
          /\ s_calls[1].kind = "SolverError"
          /\ s_calls[2].solver = DefaultSolver
    /\ (SolveCallOver /\ Len(s_calls) >= 1 /\ s_calls[1].kind = "SolverError") =>
          Len(s_calls) = 2
    /\ (Len(s_calls) = 2 /\ s_calls[2].kind = "SolverError") =>
          /\ s_pc = "solve_failed"
          /\ s_error.type = "SolverError"
          /\ s_portfolios = <<>>

C4_Witness ==
    /\ s_pc = "solve_failed"
    /\ Len(s_calls) = 2
    /\ s_calls[1].kind = "SolverError"
    /\ s_calls[2].kind = "SolverError"
    /\ s_error.type = "SolverError"

(***************************************************************************)
(* Properties of the rebalance calendar.                                   *)
(***************************************************************************)
CalledGetRebalanceDates == bt_rebalance_dates # NotCalled

ReturnedDays == {DayOf(bt_rebalance_dates[i]) : i \in 1..Len(bt_rebalance_dates)}

StrictlyIncreasing(seq) ==
    \A i \in 1..(Len(seq) - 1) : seq[i] < seq[i + 1]

AllMidnights(seq) == \A i \in 1..Len(seq) : seq[i] = Normalize(seq[i])

IsMonthEnd(d) == \E m \in 0..(HorizonMonths + 1) : d = MonthEndDay(m)

\* the end of a calendar period of the frequency: a Sunday, a month end,
\* a quarter end (March, June, September, December) or a 31 December
IsPeriodEnd(d, freq) ==
    IF freq = WEEKLY THEN IsSunday(d)
    ELSE \E m \in 0..(HorizonMonths + 1) :
            /\ d = MonthEndDay(m)
            /\ (m + 1) % MonthsPerStep(freq) = 0

\* C10 as stated: the result is exactly the period-end dates of the
\* frequency within [start, end], at midnight, strictly increasing, and
\* MONTHLY from 2023-01-01 to 2023-03-03 gives exactly 2 dates.
C10_PeriodEndsWithinWindow ==
    CalledGetRebalanceDates =>
        /\ StrictlyIncreasing(bt_rebalance_dates)
        /\ AllMidnights(bt_rebalance_dates)
        /\ ReturnedDays =
              {d \in 0..LastDay : /\ IsPeriodEnd(d, bt_freq)
                                  /\ bt_start <= Midnight(d)
                                  /\ Midnight(d) <= bt_end}
        /\ (bt_freq = MONTHLY /\ bt_start = Midnight(0) /\ bt_end = Midnight(61))
              => Len(bt_rebalance_dates) = 2

\* C10, amended: the result is, at midnight and strictly increasing, the
\* Sundays (WEEKLY) or month ends (MONTHLY) from the day of start to the day
\* of end; for QUARTERLY and YEARLY it is every 3rd or 12th month end
\* counted from the first month end on or after the day of start; MONTHLY
\* from 2023-01-01 to 2023-03-03 gives exactly 2 dates.
C10_OffsetDatesFromStartDay ==
    CalledGetRebalanceDates =>
        /\ StrictlyIncreasing(bt_rebalance_dates)
        /\ AllMidnights(bt_rebalance_dates)
        /\ ReturnedDays =
              {d \in DayOf(bt_start)..DayOf(bt_end) :
                  IF bt_freq = WEEKLY THEN IsSunday(d)
                  ELSE \E m \in 0..(HorizonMonths + 1) :
                          /\ d = MonthEndDay(m)
                          /\ (m - MonthOfDay(DayOf(bt_start))) % MonthsPerStep(bt_freq) = 0}
        /\ (bt_freq = MONTHLY /\ bt_start = Midnight(0) /\ bt_end = Midnight(61))
              => Len(bt_rebalance_dates) = 2

C10_Witness ==
    /\ bt_freq = MONTHLY
    /\ bt_start = Midnight(0)
    /\ bt_end = Midnight(61)
    /\ bt_rebalance_dates = <<Midnight(30), Midnight(58)>>

(***************************************************************************)
(* Properties of the Backtester.                                           *)
(***************************************************************************)
RebalanceDates == DateRange(bt_start, bt_end, bt_freq)

AppendedByThisCall == Len(ptfs) - bt_base

\* C5: compute_portfolios invokes the engine's solve once per rebalance
\* date, in increasing date order, with end_date equal to that date, and
\* appends each result before the next solve starts; when it completes, the
\* i-th appended Portfolio has created_at equal to the i-th rebalance date.
C5_OneSolvePerRebalanceDateInOrder ==
    /\ Len(bt_solve_log) <= Len(RebalanceDates)
    /\ \A i \in 1..Len(bt_solve_log) : bt_solve_log[i].end_date = RebalanceDates[i]
    /\ \A i \in 1..(Len(bt_solve_log) - 1) :
          bt_solve_log[i].end_date < bt_solve_log[i + 1].end_date
    /\ bt_pc = "solved" =>
          /\ AppendedByThisCall = Len(bt_solve_log) - 1
          /\ bt_pending[1].created_at = bt_solve_log[Len(bt_solve_log)].end_date
    /\ bt_pc = "loop" => AppendedByThisCall = Len(bt_solve_log)
    /\ \A i \in 1..AppendedByThisCall :
          ptfs[bt_base + i].created_at = RebalanceDates[i]
    /\ bt_result.kind = "portfolios" =>
          /\ Len(bt_solve_log) = Len(RebalanceDates)
          /\ AppendedByThisCall = Len(RebalanceDates)
          /\ bt_result.ptfs = ptfs

C5_Witness ==
    /\ bt_result.kind = "portfolios"
    /\ bt_base = 0
    /\ Len(bt_solve_log) = 2
    /\ Len(ptfs) = 2
    /\ ptfs[1].created_at = Midnight(30)
    /\ ptfs[2].created_at = Midnight(58)

HasPortfolioFor(list, date) ==
    \E j \in 1..Len(list) : list[j].created_at = date

\* C6: a failed solve propagates to the caller of the backtest, and no call
\* on the same Backtester, then or later, returns a Portfolio sequence or a
\* wealth series built from only the rebalance dates before the failure.
C6_FailurePropagatesNoPartialBacktest ==
    /\ (bt_solve_log # <<>> /\ bt_solve_log[Len(bt_solve_log)].raised) =>
          /\ bt_pc = "idle"
          /\ bt_result.kind = "error"
          /\ bt_result.error = "SolveError"
    /\ bt_result.kind \in {"portfolios", "wealth"} =>
          \A i \in 1..Len(RebalanceDates) :
              HasPortfolioFor(bt_result.ptfs, RebalanceDates[i])

\* C7: after any sequence of compute_portfolios and compute_history_values
\* calls, ptfs holds exactly one Portfolio per rebalance date, ordered by
\* strictly increasing created_at.
C7_OnePortfolioPerRebalanceDate ==
    (bt_pc = "idle" /\ bt_result.kind \in {"portfolios", "wealth"}) =>
        /\ Len(ptfs) = Len(RebalanceDates)
        /\ \A i \in 1..Len(ptfs) : ptfs[i].created_at = RebalanceDates[i]
        /\ \A i \in 1..(Len(ptfs) - 1) : ptfs[i].created_at < ptfs[i + 1].created_at

\* the rebalance dates that are not after a trading day
RebalancedBy(day) ==
    {i \in 1..Len(RebalanceDates) : DayOf(RebalanceDates[i]) <= day}

LatestRebalanceDate(day) ==
    RebalanceDates[CHOOSE i \in RebalancedBy(day) : \A j \in RebalancedBy(day) : j <= i]

\* the weight of an asset on a trading day, as C8 defines it
ClaimedWeight(list, day, a) ==
    IF RebalancedBy(day) = {} THEN 0
    ELSE LET hits == {j \in 1..Len(list) : list[j].created_at = LatestRebalanceDate(day)}
         IN  IF hits = {} THEN 0
             ELSE list[CHOOSE j \in hits : \A h \in hits : h <= j].weights[a]

ClaimedWealth(rets, list, k) ==
    One + SumOver([c \in (1..k) \X Assets |->
                      rets[c[1]].ret[c[2]] * ClaimedWeight(list, rets[c[1]].day, c[2])],
                  (1..k) \X Assets)

\* C8: compute_history_values returns, for every trading day t of the
\* realized returns, 1 + the sum over days s <= t and assets a of
\* return[s][a] * weight[s][a], weight[s] being the weight vector of the
\* latest rebalance date <= s and zero before the first rebalance date.
C8_WealthIsOnePlusCumulativeWeightedReturn ==
    bt_result.kind = "wealth" =>
        /\ Len(bt_result.wealth) = Len(bt_rets)
        /\ \A k \in 1..Len(bt_rets) :
              /\ bt_result.wealth[k].day = bt_rets[k].day
              /\ RebalancedBy(bt_rets[k].day) # {} =>
                    HasPortfolioFor(bt_result.ptfs, LatestRebalanceDate(bt_rets[k].day))
              /\ bt_result.wealth[k].value = ClaimedWealth(bt_rets, bt_result.ptfs, k)

ReturnedWealth == bt_result.kind = "wealth" /\ Len(bt_result.wealth) >= 1

\* C9 as stated: for every window with a non-empty realized-returns series
\* the first value of the wealth series is 1.0 exactly.
C9_FirstWealthIsOne ==
    ReturnedWealth => bt_result.wealth[1].value = One

\* C9, amended: the first value of the wealth series is 1.0 exactly
\* whenever the first trading day of the realized returns is earlier than
\* the first rebalance date.
C9_FirstWealthIsOneBeforeFirstRebalance ==
    (ReturnedWealth /\ RebalancedBy(bt_rets[1].day) = {}) =>
        bt_result.wealth[1].value = One

C9_Witness ==
    /\ ReturnedWealth
    /\ bt_freq = MONTHLY
    /\ bt_start = Midnight(0)
    /\ RebalancedBy(bt_rets[1].day) = {}
    /\ \A a \in Assets : bt_rets[1].ret[a] # 0
    /\ Len(bt_result.ptfs) = 2
    /\ bt_result.wealth[1].value = One

(***************************************************************************)
(* Properties of the bounded constraints.                                  *)
(***************************************************************************)
ConstraintNamed(name) ==
    s_constraints[CHOOSE k \in 1..Len(s_constraints) : s_constraints[k].name = name]

NonZeroWeights(w) == {a \in DOMAIN w : w[a] # 0}

EmittedWithConstraint(name) ==
    /\ s_pc = "done"
    /\ {SUM_TO_ONE, LONG_ONLY, name} \subseteq SeqToSet(Names(s_constraints))

\* C11: with SumToOne, NoShortSell and NumberOfAssetsConstraint(lower = m,
\* upper = M), the number n of non-zero weights of the Portfolio that solve
\* returns satisfies n >= m when m is given and n <= M when M is given.
C11_NumberOfNonZeroWeightsWithinBounds ==
    EmittedWithConstraint(NUMER_OF_ASSETS) =>
        LET c == ConstraintNamed(NUMER_OF_ASSETS)
            n == Cardinality(NonZeroWeights(s_portfolios[1].weights))
        IN /\ c.lower_bound # NoBound => n >= c.lower_bound
           /\ c.upper_bound # NoBound => n <= c.upper_bound

\* C12: with WeightsConstraint(lower = L, upper = U), every non-zero weight
\* of the Portfolio that solve returns is >= L/100 when L is given, and every
\* weight is <= U/100 plus the weights tolerance when U is given.
C12_WeightsWithinPercentBounds ==
    EmittedWithConstraint(WEIGHTS_PCT) =>
        LET c == ConstraintNamed(WEIGHTS_PCT)
            w == s_portfolios[1].weights
            tolerance == IF s_tol = TolNone THEN 0 ELSE s_tol
        IN /\ c.lower_bound # NoBound =>
                 \A a \in NonZeroWeights(w) : 100 * w[a] >= c.lower_bound * WeightScale
           /\ c.upper_bound # NoBound =>
                 \A a \in Assets : 100 * (w[a] - tolerance) <= c.upper_bound * WeightScale

(***************************************************************************)
(* Properties of the objectives.                                           *)
(***************************************************************************)
\* C14: the Portfolio that solve returns carries one ObjectiveValue per
\* objective of the Solver, in the same order, and the k-th entry holds the
\* name of the k-th objective, the value of the k-th term and the weight of
\* the k-th objective instance, also when two objectives share a name.
C14_ObjectiveValuePerObjectiveInstance ==
    s_pc = "done" =>
        LET values == s_portfolios[1].objective_values IN
        /\ Len(values) = Len(s_objectives)
        /\ \A k \in 1..Len(s_objectives) :
              /\ values[k].name = s_objectives[k].name
              /\ values[k].value = [term |-> k]
              /\ values[k].weight = s_objectives[k].weight

FinancialsSelected == FINANCIALS \in SeqToSet(Names(s_arg_objectives))

\* C15: a Solver(...) call whose objectives include one named Financials and
\* that passes no financials matrix fails at construction with an
\* AssertionError, and a call without a financials matrix and without such an
\* objective (and without NaN in the returns) constructs the Solver.
C15_FinancialsMatrixRequiredIffSelected ==
    (s_pc # "none" /\ s_arg_financials_df = NoFrame) =>
        /\ FinancialsSelected =>
              /\ s_pc = "ctor_failed"
              /\ s_error.type = "AssertionError"
        /\ (~FinancialsSelected /\ NaNCount(s_arg_returns) = 0) =>
              s_pc # "ctor_failed"

(***************************************************************************)
(* Properties of Optitrader.solve.                                         *)
(***************************************************************************)
Given(x) == x # NoBound

CalledSolve == e_ncalls > 0

\* C16: a solve call that gives num_assets together with min_num_assets or
\* max_num_assets fails with an AssertionError, requests no market data,
\* builds no Solver and leaves Optitrader.constraints as it was.
C16_ConflictingCardinalityArgsRejected ==
    (/\ CalledSolve
     /\ Given(e_args.num_assets)
     /\ (Given(e_args.min_num_assets) \/ Given(e_args.max_num_assets))) =>
        /\ e_result.kind = "error"
        /\ e_result.error = "AssertionError"
        /\ e_fetches = <<>>
        /\ e_built = <<>>
        /\ e_constraints = e_before

\* C19: a solve call with neither start_date nor end_date is not rejected
\* for its dates: it requests the returns of the default window, from the
\* first to the last available day, builds the Solver and returns the
\* Portfolio that the Solver returns.
C19_NoDatesUsesDefaultWindow ==
    (/\ CalledSolve
     /\ e_args.start_date = NoTimestamp
     /\ e_args.end_date = NoTimestamp
     /\ ~ArgsRejected(e_args)) =>
        /\ Len(e_fetches) >= 1
        /\ e_fetches[1].what = "get_total_returns"
        /\ e_fetches[1].window = [start |-> FirstAvailable, end |-> LastAvailable]
        /\ Len(e_built) = 1
        /\ e_result.error \in {"", "SolveError"}
        /\ e_result.kind = "portfolio" => e_result.portfolio[1].created_at = UtcNow

C19_Witness ==
    /\ CalledSolve
    /\ e_args = NoArgs
    /\ e_result.kind = "portfolio"
    /\ e_fetches[1].start_date = NaT

(***************************************************************************)
(* Properties of the Portfolio object.                                     *)
(***************************************************************************)
\* C17: Portfolio(weights) with a non-empty weight vector whose sum differs
\* from 1 by more than SUM_WEIGHTS_TOLERANCE fails with an AssertionError, so
\* the weights of every Portfolio that exists sum to 1 within the tolerance.
C17_PortfolioWeightsSumToOne ==
    (p_pc # "none" /\ p_arg_weights # <<>>
       /\ 100 * Abs(WeightScale - SumSeq(p_arg_weights))
             > SUM_WEIGHTS_TOLERANCE_PCT * WeightScale) =>
        /\ p_pc = "ctor_failed"
        /\ p_result.error = "AssertionError"

\* C18: no operation on a constructed Portfolio changes the Series behind
\* its weights, its objective_values or its created_at, and only
\* set_market_data changes its market-data reference.
C18_OperationsLeavePortfolioUnchanged ==
    [][p_pc = "live" =>
          /\ p_weights' = p_weights
          /\ p_heap'[p_weights'] = p_heap[p_weights]
          /\ p_objective_values' = p_objective_values
          /\ p_created_at' = p_created_at
          /\ p_result'.op # "set_market_data" => p_market_data' = p_market_data]_vars

C18_Witness ==
    /\ p_pc = "live"
    /\ p_result.op = "get_holdings_df"
    /\ p_result.error = ""
    /\ Len(p_result.value.tickers) >= 2
    /\ p_result.value.column.name = "weight_in_ptf"
    /\ p_heap[p_weights].name = ""

(***************************************************************************)
(* Properties of the ConstraintsMap object.                                *)
(***************************************************************************)
AtMostOnePerName(constraints) ==
    \A i, j \in 1..Len(constraints) :
       constraints[i].name = constraints[j].name => i = j

\* C20: a ConstraintsMap built without a repeated name holds at most one
\* constraint per ConstraintName after any sequence of add_constraint and
\* set_constraint_bounds calls, and add_constraint with a name that is
\* already in the list leaves the list's length and order unchanged.
C20_AtMostOneConstraintPerName ==
    /\ [](cm_pc = "live" => AtMostOnePerName(cm_constraints))
    /\ [][(/\ cm_pc = "live"
           /\ cm_result'.op = "add_constraint"
           /\ cm_ncalls' = cm_ncalls + 1
           /\ cm_result'.name \in SeqToSet(Names(cm_constraints)))
          => cm_constraints' = cm_constraints]_vars

C20_Witness ==
    /\ cm_pc = "live"
    /\ cm_ncalls = MaxMapCalls
    /\ cm_result.op = "add_constraint"
    /\ Len(cm_constraints) = 2
    /\ cm_result.name = cm_constraints[1].name
    /\ cm_constraints[2].name = NUMER_OF_ASSETS
    /\ cm_bounds[cm_constraints[2]].lower_bound = 2

(***************************************************************************)
(* Properties of the ObjectivesMap object.                                 *)
(***************************************************************************)
\* the add_objective calls made with this name
CallsNamed(name) == SelectSeq(om_calls, LAMBDA call : call.name = name)

\* the objectives of the map that carry this name
ObjectivesNamed(name) == SelectSeq(om_objectives, LAMBDA obj : obj.name = name)

\* C21: on a map that was built empty, every name that add_objective was
\* called with has exactly one objective, of the class registered for the
\* name and with the weight of the latest call for the name, every other
\* name has none, and the objectives stand in the order of their first call.
C21_OneObjectivePerNameWithLatestWeight ==
    (om_pc = "live" /\ om_arg \in {NoList, <<>>}) =>
        /\ \A name \in ObjectiveNames :
              IF CallsNamed(name) = <<>>
              THEN ObjectivesNamed(name) = <<>>
              ELSE ObjectivesNamed(name) =
                      <<ToObjective(name,
                                    CallsNamed(name)[Len(CallsNamed(name))].weight)>>
        /\ \A i, j \in 1..Len(om_objectives) :
              i < j =>
                 \E a, b \in 1..Len(om_calls) :
                    /\ a < b
                    /\ om_calls[a].name = om_objectives[i].name
                    /\ om_calls[b].name = om_objectives[j].name
                    /\ \A c \in 1..(b - 1) : om_calls[c].name # om_objectives[j].name

C21_Witness ==
    /\ om_pc = "live"
    /\ om_arg \in {NoList, <<>>}
    /\ Len(om_calls) = 3
    /\ om_calls[1].name = om_calls[3].name
    /\ om_calls[1].weight # om_calls[3].weight
    /\ Len(om_objectives) = 2
    /\ om_objectives[1].weight = om_calls[3].weight

\* C22: a solve() call with a non-zero num_assets that passes the argument
\* checks (C16) appends exactly one constraint to the engine's constraints:
\* the WeightsConstraint with lower bound 1 percent and upper bound
\* max_weight_pct when num_assets is the size of the investment universe,
\* and NumberOfAssetsConstraint(num_assets, num_assets) otherwise.
C22_ExactCardinalityBranch ==
    (/\ CalledSolve
     /\ e_args.num_assets \notin {NoBound, 0}
     /\ e_result.error # "AssertionError") =>
        e_constraints =
           Append(e_before,
                  IF e_args.num_assets = NumAssets
                  THEN [name |-> WEIGHTS_PCT, lower_bound |-> 1,
                        upper_bound |-> e_args.max_weight_pct]
                  ELSE [name |-> NUMER_OF_ASSETS, lower_bound |-> e_args.num_assets,
                        upper_bound |-> e_args.num_assets])

C22_Witness ==
    /\ CalledSolve
    /\ e_args.num_assets = NumAssets
    /\ e_args.max_weight_pct = 50
    /\ e_result.kind = "portfolio"
    /\ Len(e_constraints) = Len(e_before) + 1
    /\ e_constraints[Len(e_constraints)].name = WEIGHTS_PCT
    /\ NUMER_OF_ASSETS \in SeqToSet(Names(e_before))

\* a bound that is given and lies outside [0, 100]
OutOfPercentRange(bound) == bound # NoBound /\ (bound < 0 \/ bound > 100)

\* C23: a WeightsConstraint with a lower or upper bound below 0 or above 100
\* is rejected when it is used: solve fails with the bound AssertionError
\* and the backend is never handed a problem.
C23_PercentBoundsValidated ==
    (/\ SolveCallOver
     /\ s_objectives # <<>>
     /\ \E k \in 1..Len(s_constraints) :
           /\ s_constraints[k].name = WEIGHTS_PCT
           /\ \/ OutOfPercentRange(s_constraints[k].lower_bound)
              \/ OutOfPercentRange(s_constraints[k].upper_bound)) =>
        /\ s_pc = "solve_failed"
        /\ s_error = [type |-> "AssertionError", detail |-> "bound percentage"]
        /\ s_calls = <<>>

\* solve() got an optimal status from the backend and has finished
OptimalSolveOver ==
    /\ s_pc \in {"done", "solve_failed"}
    /\ s_calls # <<>>
    /\ s_calls[Len(s_calls)].kind = "returned"
    /\ s_status = "optimal"

NoShortSellWithoutSumToOne ==
    /\ LONG_ONLY \in SeqToSet(Names(s_constraints))
    /\ SUM_TO_ONE \notin SeqToSet(Names(s_constraints))

\* C24: with NoShortSell and without SumToOne among the constraints, solve
\* emits a Portfolio only if every recovered weight is >= 0, and when some
\* recovered weight is negative it fails with the AssertionError of the
\* weights check and emits nothing.
C24_NegativeRecoveredWeightFails ==
    (OptimalSolveOver /\ NoShortSellWithoutSumToOne) =>
        /\ s_pc = "done" => \A a \in Assets : s_value[a] >= 0
        /\ (\E a \in Assets : s_value[a] < 0) =>
              /\ s_pc = "solve_failed"
              /\ s_error = [type |-> "AssertionError", detail |-> "weights"]
              /\ s_portfolios = <<>>

C24_Witness ==
    /\ OptimalSolveOver
    /\ NoShortSellWithoutSumToOne
    /\ \E a \in Assets : s_value[a] < 0
    /\ s_tol = 2
    /\ s_error.detail = "weights"

\* C26: the weights of the Portfolio that solve emits are the recovered
\* weights with every w such that |w| < weights_tolerance replaced by 0 and
\* every other weight as recovered, over the same assets in the same order;
\* with weights_tolerance = None they are the recovered weights.
C26_ToleranceZeroing ==
    s_pc = "done" =>
        LET emitted == s_portfolios[1].weights IN
        /\ DOMAIN emitted = DOMAIN s_value
        /\ \A a \in DOMAIN s_value :
              IF s_tol # TolNone /\ s_value[a] > 0 - s_tol /\ s_value[a] < s_tol
              THEN emitted[a] = 0
              ELSE emitted[a] = s_value[a]

C26_Witness ==
    /\ s_pc = "done"
    /\ s_tol = 2
    /\ \E a, b, c \in Assets :
          /\ s_value[a] = -1 /\ s_portfolios[1].weights[a] = 0
          /\ s_value[b] = 1 /\ s_portfolios[1].weights[b] = 0
          /\ s_value[c] >= 2 /\ s_portfolios[1].weights[c] = s_value[c]

\* C28: without SumToOne among the constraints, every optimal solution that
\* passes the non-negativity check (made when NoShortSell is present)
\* yields a Portfolio, whatever the sum of its weights.
C28_NoSumRequirementWithoutSumToOne ==
    (/\ OptimalSolveOver
     /\ SUM_TO_ONE \notin SeqToSet(Names(s_constraints))
     /\ LONG_ONLY \in SeqToSet(Names(s_constraints)) =>
           \A a \in Assets : s_value[a] >= 0) =>
        /\ s_pc = "done"
        /\ Len(s_portfolios) = 1

LibraryClasses == {ObjectiveMapping(name) : name \in ObjectiveNames}

\* C25: the objective handed to the backend has one term per selected
\* objective, in order, and the term of every objective of a library class
\* is that class's base expression multiplied by the objective's weight.
C25_ObjectiveIsSumOfWeightedTerms ==
    \A c \in 1..Len(s_calls) :
       /\ Len(s_calls[c].objective) = Len(s_objectives)
       /\ \A k \in 1..Len(s_objectives) :
             s_objectives[k].cls \in LibraryClasses =>
                s_calls[c].objective[k] =
                   [name |-> s_objectives[k].name,
                    base |-> BaseExpression(s_objectives[k].cls),
                    coefficient |-> s_objectives[k].weight]

\* the constraints this Optitrader was constructed with
ConstructedConstraints == <<SumToOneConstraint, NoShortSellConstraint>>

\* C27: a solve call leaves no added constraint behind in
\* Optitrader.constraints, and the constraints handed to the Solver are the
\* constraints given at construction followed by those that the arguments of
\* this call add.
C27_NoConstraintLeftBehind ==
    CalledSolve =>
        /\ e_constraints = ConstructedConstraints
        /\ e_built # <<>> =>
              e_built[1].constraints = ConstructedConstraints \o AddedConstraints(e_args)

\* C29: compute_portfolios(progress_bar=False) runs to completion without
\* using a progress-bar object: it ends by returning self.ptfs unless a
\* solve raised, and never with an error about the bar.
C29_NoProgressBarRunsToCompletion ==
    (/\ bt_pc = "idle"
     /\ bt_ncalls > 0
     /\ bt_caller = "compute_portfolios"
     /\ ~bt_bar) =>
        \/ bt_result.kind = "portfolios" /\ bt_result.ptfs = ptfs
        \/ bt_result.error = "SolveError"

(***************************************************************************)
(* Properties of the SessionManager.                                       *)
(***************************************************************************)
\* C30: a click on the button while a portfolio is cached does not run the
\* solver, and the cached portfolio was solved for the parameters the page
\* shows now: a change of the universe, the objectives or their weights, the
\* constraints or their bounds, or the start date has cleared it.
C30_CachedPortfolioMatchesParameters ==
    /\ (sm_last.event = "run_optimization" /\ sm_last.cached) => ~sm_last.solved
    /\ sm_opt_ptf # <<>> => sm_opt_ptf[1].solved_for = sm_params

====
